---- MODULE Spec2Model ----
(***************************************************************************)
(* Model of the virality classifier (src/monitor/virality_checker.py) and  *)
(* of the fact verifier (src/factcheck/verifier.py, sources.py) of the     *)
(* YouTube DeFi monitor.                                                   *)
(*                                                                         *)
(* Numbers.  Subscriber and view counts are integers.  A threshold ratio   *)
(* (a float in the configuration) is held as an integer count of           *)
(* 1/RatioDen, a rounded score as an integer count of thousandths, and the *)
(* quotient views / subscribers is never formed: comparisons with it are   *)
(* cross-multiplied, so they are exact.                                    *)
(***************************************************************************)
EXTENDS Integers, Sequences, FiniteSets, TLC

VARIABLES
    thresholds,     \* ViralityChecker.thresholds (ViralityThresholds)
    call,           \* the operation invoked and its arguments
    ret,            \* what that operation returned
    reads,          \* the categories whose ratio the operation read
    world,          \* what the external endpoints answer
    log,            \* the adapter calls the operation made, in order
    passes,         \* the verify_claims passes in progress
    db,             \* the tables videos, verified_facts and scripts
    cycles          \* what each monitoring cycle so far found and did

vars == <<thresholds, call, ret, reads, world, log, passes, db, cycles>>

----------------------------------------------------------------------------
(* Bounds of the model. *)

MaxBreak == 2       \* largest breakpoint (max_subs) a configuration holds
MaxSubs == 4        \* largest small subscriber count tried
MaxViews == 3       \* largest small view count tried
MaxVideos == 2      \* longest list handed to filter_viral_videos
MaxCycles == 2      \* monitoring cycles run
MaxEntities == 2    \* longest entity list of a claim
MaxPools == 2       \* longest freely chosen list of yield pools

(* A channel and a video large enough for the quotient to fall within      *)
(* half a thousandth of a threshold: 3001 / 2001 = 1.49975...              *)
LargeSubs == {2001}
LargeViews == {3001}

SubsValues == (-1 .. MaxSubs) \cup LargeSubs
ViewsValues == (-1 .. MaxViews) \cup LargeViews
VideoIds == {"va", "vb"}

----------------------------------------------------------------------------
(* Configuration: config.py ViralityThreshold / ViralityThresholds.        *)

RatioDen == 10000
ScoreDen == 1000

(* ratio values a configuration may hold: 0.3333, 1.0 and 1.5 *)
RatioValues == {3333, 10000, 15000}

None == [kind |-> "None"]

(* ViralityThreshold: max_subs Optional[int], ratio float.  The model      *)
(* validates exactly what pydantic validates: the field types.             *)
ViralityThreshold(maxSubsValues) ==
    [max_subs : maxSubsValues, ratio : RatioValues]

ViralityThresholds ==
    [small : ViralityThreshold(0 .. MaxBreak),
     medium : ViralityThreshold(0 .. MaxBreak),
     large : ViralityThreshold({None})]

----------------------------------------------------------------------------
(* ViralityChecker *)

get_channel_category(th, subscribers) ==
    IF subscribers <= th.small.max_subs THEN "small"
    ELSE IF subscribers <= th.medium.max_subs THEN "medium"
    ELSE "large"

get_threshold_ratio(th, category) ==
    IF category = "small" THEN th.small.ratio
    ELSE IF category = "medium" THEN th.medium.ratio
    ELSE th.large.ratio

(* score >= threshold_ratio for score = views / subscribers, subscribers > 0 *)
ScoreAtLeast_strict(views, subscribers, ratio) ==
    views * RatioDen > ratio * subscribers

ScoreAtLeast(views, subscribers, ratio) ==
    views * RatioDen >= ratio * subscribers

(* round(views / subscribers, 3) in thousandths.  Off a tie the nearest    *)
(* thousandth; on an exact decimal tie the binary double nearest the       *)
(* quotient decides, so both neighbours are possible outcomes.             *)
RoundScore_truncate(views, subscribers) ==
    {(views * ScoreDen) \div subscribers}

RoundScore(views, subscribers) ==
    LET n == views * ScoreDen
        q == n \div subscribers
        r == n - q * subscribers
    IN  IF 2 * r < subscribers THEN {q}
        ELSE IF 2 * r > subscribers THEN {q + 1}
        ELSE {q, q + 1}

ViralityResult(is_viral, score, threshold_used, category, views, subscribers) ==
    [is_viral |-> is_viral, score |-> score, threshold_used |-> threshold_used,
     channel_category |-> category, views |-> views, subscribers |-> subscribers]

(* How a call ends: it returns a value or it raises. *)
Return(value) == [kind |-> "return", value |-> value]
Raise(error) == [kind |-> "raise", value |-> error]

(* The outcomes check_virality can have (one, off a rounding tie). *)
check_virality_guard(th, views, subscribers) ==
    IF subscribers < 0
    THEN {Return(ViralityResult(FALSE, 0, 0, "unknown", views, subscribers))}
    ELSE IF subscribers = 0 THEN {Raise("ZeroDivisionError")}
    ELSE LET category == get_channel_category(th, subscribers)
             threshold_ratio == get_threshold_ratio(th, category)
             is_viral == ScoreAtLeast(views, subscribers, threshold_ratio)
         IN  {Return(ViralityResult(is_viral, score, threshold_ratio, category,
                                    views, subscribers))
                : score \in RoundScore(views, subscribers)}

check_virality(th, views, subscribers) ==
    IF subscribers <= 0
    THEN {Return(ViralityResult(FALSE, 0, 0, "unknown", views, subscribers))}
    ELSE LET category == get_channel_category(th, subscribers)
             threshold_ratio == get_threshold_ratio(th, category)
             is_viral == ScoreAtLeast(views, subscribers, threshold_ratio)
         IN  {Return(ViralityResult(is_viral, score, threshold_ratio, category,
                                    views, subscribers))
                : score \in RoundScore(views, subscribers)}

(* The categories whose ratio check_virality reads. *)
ThresholdReads(th, subscribers) ==
    IF subscribers <= 0 THEN {}
    ELSE {get_channel_category(th, subscribers)}

Video(id, views, virality_score) ==
    [id |-> id, views |-> views, virality_score |-> virality_score]

(* The outcomes filter_viral_videos can have for the records videos, given *)
(* the list viral_videos built so far.                                     *)
RECURSIVE filter_viral_videos_front(_, _, _, _)
filter_viral_videos_front(th, videos, subscribers, viral_videos) ==
    IF videos = <<>> THEN {Return(viral_videos)}
    ELSE LET video_data == Head(videos)
         IN  UNION {
               IF result.kind = "raise" THEN {result}
               ELSE filter_viral_videos_front(th, Tail(videos), subscribers,
                      IF result.value.is_viral
                      THEN <<Video(video_data.id, video_data.views,
                                   result.value.score)>> \o viral_videos
                      ELSE viral_videos)
               : result \in check_virality(th, video_data.views, subscribers)}

RECURSIVE filter_viral_videos(_, _, _, _)
filter_viral_videos(th, videos, subscribers, viral_videos) ==
    IF videos = <<>> THEN {Return(viral_videos)}
    ELSE LET video_data == Head(videos)
         IN  UNION {
               IF result.kind = "raise" THEN {result}
               ELSE filter_viral_videos(th, Tail(videos), subscribers,
                      IF result.value.is_viral
                      THEN Append(viral_videos,
                                  Video(video_data.id, video_data.views,
                                        result.value.score))
                      ELSE viral_videos)
               : result \in check_virality(th, video_data.views, subscribers)}

----------------------------------------------------------------------------
(* Numbers of the fact verifier.  A Python float is held as a decimal      *)
(* m * 10^e with an integer m >= 0, so that "$10 billion" and the          *)
(* multiplier 1e9 keep their magnitude; the ratio actual / claimed is      *)
(* never formed, the band tests are cross-multiplied.                      *)

Num(m, e) == [kind |-> "float", m |-> m, e |-> e]

Pow10(k) == CASE k = 0 -> 1 [] k = 1 -> 10 [] k = 2 -> 100 [] k = 3 -> 1000
              [] k = 4 -> 10000 [] OTHER -> 100000

IsNumber(x) == x.kind = "float"

(* a * p <= b * q for numbers a, b and small positive integers p, q *)
LeqTimes(a, p, b, q) ==
    IF a.m = 0 THEN TRUE
    ELSE IF b.m = 0 THEN FALSE
    ELSE IF a.e - b.e >= 5 THEN FALSE
    ELSE IF b.e - a.e >= 5 THEN TRUE
    ELSE IF a.e >= b.e THEN a.m * p * Pow10(a.e - b.e) <= b.m * q
    ELSE a.m * p <= b.m * q * Pow10(b.e - a.e)

NumEq(a, b) == LeqTimes(a, 1, b, 1) /\ LeqTimes(b, 1, a, 1)

(* low <= actual / claimed <= high, for a band in tenths and claimed > 0 *)
InBand_open(actual, claimed, lowTenths, highTenths) ==
    /\ ~LeqTimes(actual, 10, claimed, lowTenths)
    /\ ~LeqTimes(claimed, highTenths, actual, 10)

InBand(actual, claimed, lowTenths, highTenths) ==
    /\ LeqTimes(claimed, lowTenths, actual, 10)
    /\ LeqTimes(actual, 10, claimed, highTenths)

(* Python truth of an Optional[float]: neither None nor 0.0 *)
Truthy(x) == x.kind = "float" /\ x.m # 0

----------------------------------------------------------------------------
(* Text.  A string is a sequence of characters; a Cyrillic letter is       *)
(* written by its code point.                                              *)

Digits == {"0", "1", "2", "3", "4", "5", "6", "7", "8", "9"}

DigitValue(c) ==
    CASE c = "0" -> 0 [] c = "1" -> 1 [] c = "2" -> 2 [] c = "3" -> 3
      [] c = "4" -> 4 [] c = "5" -> 5 [] c = "6" -> 6 [] c = "7" -> 7
      [] c = "8" -> 8 [] c = "9" -> 9

(* str.lower(), on the capitals the claim texts use *)
LowerChar(c) ==
    CASE c = "A" -> "a" [] c = "B" -> "b" [] c = "E" -> "e" [] c = "H" -> "h"
      [] c = "K" -> "k" [] c = "L" -> "l" [] c = "M" -> "m" [] c = "P" -> "p"
      [] c = "T" -> "t" [] c = "V" -> "v" [] c = "Y" -> "y" [] OTHER -> c

Lower(text) == [i \in 1 .. Len(text) |-> LowerChar(text[i])]

(* str.replace(ch, "") *)
Remove(text, ch) == LET Keep(c) == c # ch IN SelectSeq(text, Keep)

(* [\d.] *)
IsNumChar(c) == c \in Digits \cup {"."}

(* the last index of the maximal [\d.]+ run that starts at i *)
RECURSIVE RunEnd(_, _)
RunEnd(text, i) ==
    IF i < Len(text) /\ IsNumChar(text[i + 1]) THEN RunEnd(text, i + 1) ELSE i

(* the indices at which a maximal [\d.]+ run starts *)
RunStarts(text) ==
    {i \in 1 .. Len(text) :
        IsNumChar(text[i]) /\ (i = 1 \/ ~IsNumChar(text[i - 1]))}

HasWordAt(text, j, word) ==
    /\ j + Len(word) - 1 <= Len(text)
    /\ SubSeq(text, j, j + Len(word) - 1) = word

(* \s*: the first index at or after j that holds no blank *)
RECURSIVE SkipBlanks(_, _)
SkipBlanks(text, j) ==
    IF j <= Len(text) /\ text[j] = " " THEN SkipBlanks(text, j + 1) ELSE j

Min(S) == CHOOSE x \in S : \A y \in S : x <= y

(* re.search(r"\$?([\d.]+)\s*(?:w1|w2|...)", text).group(1), or the empty *)
(* sequence when nothing matches (a group is never empty).  The            *)
(* words begin with a letter or a sign, so no shorter run can be followed  *)
(* by one: the match is the leftmost maximal run that a word follows.      *)
SearchNumberBefore(text, words) ==
    LET hits == {i \in RunStarts(text) :
                   \E word \in words :
                      HasWordAt(text, SkipBlanks(text, RunEnd(text, i) + 1), word)}
    IN  IF hits = {} THEN <<>>
        ELSE SubSeq(text, Min(hits), RunEnd(text, Min(hits)))

(* float(group): None stands for ValueError *)
RECURSIVE DigitsToInt(_, _)
DigitsToInt(group, acc) ==
    IF group = <<>> THEN acc
    ELSE DigitsToInt(Tail(group), acc * 10 + DigitValue(Head(group)))

Float(group) ==
    LET dots == {i \in 1 .. Len(group) : group[i] = "."}
        digits == Remove(group, ".")
    IN  IF Cardinality(dots) > 1 \/ digits = <<>> THEN None
        ELSE LET decimals == IF dots = {} THEN 0
                             ELSE Len(group) - (CHOOSE i \in dots : TRUE)
             IN  Num(DigitsToInt(digits, 0), -decimals)

(* the unit words of _extract_number and their multipliers, in order *)
NumberPatterns ==
    << [words |-> {<<"b", "i", "l", "l", "i", "o", "n">>,
                   <<"U+043C", "U+043B", "U+0440", "U+0434">>},
        exponent |-> 9],
       [words |-> {<<"m", "i", "l", "l", "i", "o", "n">>,
                   <<"U+043C", "U+043B", "U+043D">>, <<"m">>},
        exponent |-> 6],
       [words |-> {<<"t", "h", "o", "u", "s", "a", "n", "d">>,
                   <<"U+0442", "U+044B", "U+0441">>, <<"k">>},
        exponent |-> 3],
       [words |-> {<<>>}, exponent |-> 0] >>

RECURSIVE ExtractFrom(_, _)
ExtractFrom(text, k) ==
    IF k > Len(NumberPatterns) THEN None
    ELSE LET group == SearchNumberBefore(text, NumberPatterns[k].words)
         IN  IF group = <<>> THEN ExtractFrom(text, k + 1)
             ELSE IF Float(group) = None THEN ExtractFrom(text, k + 1)
             ELSE Num(Float(group).m, Float(group).e + NumberPatterns[k].exponent)

_extract_number(text) ==
    ExtractFrom(Remove(Remove(Lower(text), ","), " "), 1)

PercentWords ==
    << {<<"%">>},
       {<<"U+043F", "U+0440", "U+043E", "U+0446", "U+0435", "U+043D", "U+0442">>},
       {<<"p", "e", "r", "c", "e", "n", "t">>} >>

RECURSIVE ExtractPercentFrom(_, _)
ExtractPercentFrom(text, k) ==
    IF k > Len(PercentWords) THEN None
    ELSE LET group == SearchNumberBefore(text, PercentWords[k])
         IN  IF group = <<>> THEN ExtractPercentFrom(text, k + 1)
             ELSE IF Float(group) = None THEN ExtractPercentFrom(text, k + 1)
             ELSE Float(group)

_extract_percentage(text) == ExtractPercentFrom(Lower(text), 1)

----------------------------------------------------------------------------
(* Source adapters (sources.py).  world holds what each external endpoint  *)
(* answers: a response is an exception of the transport, a status other    *)
(* than 200, or a status 200 with a JSON body.  Every adapter method       *)
(* returns its data together with the calls it made, in order.             *)

(* str.lower() on the names the claims mention *)
LowerName(name) ==
    CASE name = "Aave" -> "aave" [] name = "Solana" -> "solana" [] OTHER -> name

Exception == [raised |-> TRUE]
NotFound == [raised |-> FALSE, status |-> 404]
Ok(body) == [raised |-> FALSE, status |-> 200, body |-> body]

(* a JSON key that is absent, as opposed to one that holds null (None) *)
Missing == [kind |-> "missing"]
JsonList(items) == [kind |-> "list", items |-> items]

(* dict.get(key, default) *)
Get(value, default) == IF value = Missing THEN default ELSE value

FactData(source, query, value) ==
    [kind |-> "FactData", source |-> source, query |-> query, value |-> value]

Called(fn, arg) == [fn |-> fn, arg |-> arg]

Result(data, calls) == [data |-> data, calls |-> calls]

DefiLlamaName == "defillama"
CoinGeckoName == "coingecko"

get_protocol_tvl(w, protocol) ==
    LET response == w.protocol[LowerName(protocol)]
        calls == <<Called("get_protocol_tvl", protocol)>>
    IN  IF response.raised THEN Result(None, calls)
        ELSE IF response.status # 200 THEN Result(None, calls)
        ELSE LET tvl == Get(response.body.tvl, None)
             IN  IF tvl = None THEN Result(None, calls)
                 ELSE LET current_tvl ==
                            IF tvl.kind = "list" /\ tvl.items # <<>>
                            THEN Get(tvl.items[Len(tvl.items)].totalLiquidityUSD,
                                     Num(0, 0))
                            ELSE tvl
                      IN  Result(FactData(DefiLlamaName, protocol, current_tvl),
                                 calls)

(* the first chain_data whose name matches, or None *)
RECURSIVE FindChain(_, _, _)
FindChain(chains, chain, chain_lower) ==
    IF chains = <<>> THEN None
    ELSE IF LowerName(Head(chains).name) = chain_lower
         THEN FactData(DefiLlamaName, chain, Get(Head(chains).tvl, Num(0, 0)))
         ELSE FindChain(Tail(chains), chain, chain_lower)

get_chain_tvl(w, chain) ==
    LET response == w.chains
        calls == <<Called("get_chain_tvl", chain)>>
    IN  IF response.raised THEN Result(None, calls)
        ELSE IF response.status # 200 THEN Result(None, calls)
        ELSE Result(FindChain(response.body, chain, LowerName(chain)), calls)

(* DefiLlamaSource.query: the protocol lookup, then the chain lookup *)
defillama_query(w, query) ==
    LET result == get_protocol_tvl(w, query)
    IN  IF result.data # None THEN result
        ELSE LET chain == get_chain_tvl(w, query)
             IN  Result(chain.data, result.calls \o chain.calls)

(* pools[:n] *)
Take(seq, n) == SubSeq(seq, 1, IF Len(seq) < n THEN Len(seq) ELSE n)

PoolCap == 100

get_yields(w, protocol) ==
    LET response == w.pools
        calls == <<Called("get_yields", protocol)>>
    IN  IF response.raised THEN Result(<<>>, calls)
        ELSE IF response.status # 200 THEN Result(<<>>, calls)
        ELSE LET OfProject(p) == LowerName(p.project) = LowerName(protocol)
             IN  Result(Take(SelectSeq(response.body, OfProject), PoolCap), calls)

(* Python's limit on nested calls: past it RecursionError is raised, which *)
(* the nearest "except Exception" of the adapter turns into None.          *)
RecursionLimit == 4

(* get_token_price and _search_token call one another; step tells which    *)
(* of the two runs, depth counts the calls nested so far.                  *)
RECURSIVE TokenPrice(_, _, _, _)
TokenPrice(w, step, arg, depth) ==
    IF depth > RecursionLimit THEN Result(None, <<>>)
    ELSE IF step = "get_token_price"
    THEN LET response == w.price[LowerName(arg)]
             calls == <<Called("get_token_price", arg)>>
         IN  IF response.raised THEN Result(None, calls)
             ELSE IF response.status # 200 THEN Result(None, calls)
             ELSE IF response.body = Missing
             THEN LET found == TokenPrice(w, "_search_token", arg, depth + 1)
                  IN  Result(found.data, calls \o found.calls)
             ELSE Result(FactData(CoinGeckoName, arg,
                                  Get(response.body.usd, Num(0, 0))), calls)
    ELSE LET response == w.search[LowerName(arg)]
             calls == <<Called("_search_token", arg)>>
         IN  IF response.raised THEN Result(None, calls)
             ELSE IF response.status # 200 THEN Result(None, calls)
             ELSE IF response.body = <<>> THEN Result(None, calls)
             ELSE LET found == TokenPrice(w, "get_token_price",
                                          Head(response.body), depth + 1)
                  IN  Result(found.data, calls \o found.calls)

get_token_price(w, token_id) == TokenPrice(w, "get_token_price", token_id, 1)

(* CoinGeckoSource.query *)
coingecko_query(w, query) == get_token_price(w, query)

----------------------------------------------------------------------------
(* Fact verifier (verifier.py).  A route returns its outcome together with *)
(* the adapter calls it made.                                              *)

VERIFIED == "verified"
OUTDATED == "outdated"
UNVERIFIED == "unverified"

(* a formatted display string: the format and the value put through it *)
Str(format, value) == [kind |-> "str", format |-> format, value |-> value]

VerificationResult(status, source, verified_value, original_value, notes) ==
    [status |-> status, source |-> source, verified_value |-> verified_value,
     original_value |-> original_value, notes |-> notes]

Outcome(out, calls) == [out |-> out, calls |-> calls]

(* the tolerance bands on actual / claimed, in tenths *)
TvlBand == <<8, 12>>
PriceBand == <<9, 11>>
YieldBand == <<7, 13>>

(* the comparison shared by _verify_tvl_claim and _verify_price_claim once *)
(* an entity has produced data                                             *)
CompareWithClaim_false(claim, data, source, band, format, differs, exists) ==
    LET claimed_value == _extract_number(claim.claim)
        actual_value == data.value
    IN  IF ~IsNumber(actual_value) THEN Raise("TypeError")
        ELSE IF Truthy(claimed_value)
        THEN IF InBand(actual_value, claimed_value, band[1], band[2])
             THEN Return(VerificationResult(VERIFIED, Str("name", source),
                            Str(format, actual_value),
                            Str(format, claimed_value), None))
             ELSE Return(VerificationResult("false", Str("name", source),
                            Str(format, actual_value),
                            Str(format, claimed_value), Str(differs, None)))
        ELSE Return(VerificationResult(VERIFIED, Str("name", source),
                       Str(format, actual_value), None, exists))

CompareWithClaim(claim, data, source, band, format, differs, exists) ==
    LET claimed_value == _extract_number(claim.claim)
        actual_value == data.value
    IN  IF ~IsNumber(actual_value) THEN Raise("TypeError")
        ELSE IF Truthy(claimed_value)
        THEN IF InBand(actual_value, claimed_value, band[1], band[2])
             THEN Return(VerificationResult(VERIFIED, Str("name", source),
                            Str(format, actual_value),
                            Str(format, claimed_value), None))
             ELSE Return(VerificationResult(OUTDATED, Str("name", source),
                            Str(format, actual_value),
                            Str(format, claimed_value), Str(differs, None)))
        ELSE Return(VerificationResult(VERIFIED, Str("name", source),
                       Str(format, actual_value), None, exists))

RECURSIVE VerifyTvlFrom(_, _, _, _)
VerifyTvlFrom(w, claim, i, calls) ==
    IF i > Len(claim.entities)
    THEN Outcome(Return(VerificationResult(UNVERIFIED, None, None, None,
                           Str("Could not find protocol data", None))), calls)
    ELSE LET result == get_protocol_tvl(w, claim.entities[i])
         IN  IF result.data # None
             THEN Outcome(CompareWithClaim(claim, result.data, DefiLlamaName,
                             TvlBand, "$,.0f", "Actual TVL differs",
                             Str("Protocol exists, TVL confirmed", None)),
                          calls \o result.calls)
             ELSE VerifyTvlFrom(w, claim, i + 1, calls \o result.calls)

_verify_tvl_claim(w, claim) == VerifyTvlFrom(w, claim, 1, <<>>)

RECURSIVE VerifyPriceFrom(_, _, _, _)
VerifyPriceFrom(w, claim, i, calls) ==
    IF i > Len(claim.entities)
    THEN Outcome(Return(VerificationResult(UNVERIFIED, None, None, None,
                           Str("Could not find token price", None))), calls)
    ELSE LET result == get_token_price(w, claim.entities[i])
         IN  IF result.data # None
             THEN Outcome(CompareWithClaim(claim, result.data, CoinGeckoName,
                             PriceBand, "$,.2f", "Price changed", None),
                          calls \o result.calls)
             ELSE VerifyPriceFrom(w, claim, i + 1, calls \o result.calls)

_verify_price_claim(w, claim) == VerifyPriceFrom(w, claim, 1, <<>>)

(* the first of pools whose apy is within the band of claimed_apy, as a    *)
(* one-element sequence, or the empty sequence                             *)
RECURSIVE FirstMatchingPool(_, _)
FirstMatchingPool(pools, claimed_apy) ==
    IF pools = <<>> THEN <<>>
    ELSE LET pool_apy == Get(Head(pools).apy, Num(0, 0))
         IN  IF /\ Truthy(pool_apy) /\ Truthy(claimed_apy)
                /\ InBand(pool_apy, claimed_apy, YieldBand[1], YieldBand[2])
             THEN <<Head(pools)>>
             ELSE FirstMatchingPool(Tail(pools), claimed_apy)

(* a + b for numbers of nearby magnitude *)
Add(a, b) ==
    IF a.e <= b.e THEN Num(a.m + b.m * Pow10(b.e - a.e), a.e)
    ELSE Num(a.m * Pow10(a.e - b.e) + b.m, b.e)

(* sum(p.get("apy", 0) for p in pools): None stands for TypeError *)
RECURSIVE SumApy(_, _)
SumApy(pools, acc) ==
    IF pools = <<>> THEN acc
    ELSE LET apy == Get(Head(pools).apy, Num(0, 0))
         IN  IF ~IsNumber(apy) THEN None
             ELSE SumApy(Tail(pools), Add(acc, apy))

MatchedPools == 10
AveragedPools == 5

RECURSIVE VerifyYieldFrom(_, _, _, _)
VerifyYieldFrom(w, claim, i, calls) ==
    IF i > Len(claim.entities)
    THEN Outcome(Return(VerificationResult(UNVERIFIED, None, None, None,
                           Str("Could not verify yield data", None))), calls)
    ELSE LET result == get_yields(w, claim.entities[i])
             pools == result.data
             claimed_apy == _extract_percentage(claim.claim)
             match == FirstMatchingPool(Take(pools, MatchedPools), claimed_apy)
             sum == SumApy(Take(pools, AveragedPools), Num(0, 0))
         IN  IF pools # <<>> /\ match # <<>>
             THEN Outcome(Return(VerificationResult(VERIFIED,
                             Str("name", DefiLlamaName),
                             Str(".1f%", Get(match[1].apy, Num(0, 0))),
                             Str(".1f%", claimed_apy),
                             Str("Pool", match[1]))),
                          calls \o result.calls)
             ELSE IF pools # <<>> /\ Truthy(claimed_apy)
             THEN Outcome(IF sum = None THEN Raise("TypeError")
                          ELSE Return(VerificationResult(OUTDATED,
                                  Str("name", DefiLlamaName),
                                  Str("~.1f%", <<sum, Len(Take(pools, AveragedPools))>>),
                                  Str(".1f%", claimed_apy),
                                  Str("APY may have changed", None))),
                          calls \o result.calls)
             ELSE VerifyYieldFrom(w, claim, i + 1, calls \o result.calls)

_verify_yield_claim(w, claim) == VerifyYieldFrom(w, claim, 1, <<>>)

RECURSIVE VerifyGeneralFrom_source(_, _, _, _)
VerifyGeneralFrom_source(w, claim, i, calls) ==
    IF i > Len(claim.entities)
    THEN Outcome(Return(VerificationResult(UNVERIFIED, None, None, None,
                           Str("No matching data found", None))), calls)
    ELSE LET entity == claim.entities[i]
             llama == defillama_query(w, entity)
             gecko == coingecko_query(w, entity)
         IN  IF llama.data # None
             THEN Outcome(Return(VerificationResult(VERIFIED,
                             Str("name", DefiLlamaName),
                             Str("str", llama.data.value), None,
                             Str("Entity found", entity))),
                          calls \o llama.calls)
             ELSE IF gecko.data # None
             THEN Outcome(IF ~IsNumber(gecko.data.value) THEN Raise("TypeError")
                          ELSE Return(VerificationResult(VERIFIED,
                                  Str("name", DefiLlamaName),
                                  Str("$,.2f", gecko.data.value), None,
                                  Str("Token found", entity))),
                          calls \o llama.calls \o gecko.calls)
             ELSE VerifyGeneralFrom_source(w, claim, i + 1,
                                           calls \o llama.calls \o gecko.calls)

RECURSIVE VerifyGeneralFrom(_, _, _, _)
VerifyGeneralFrom(w, claim, i, calls) ==
    IF i > Len(claim.entities)
    THEN Outcome(Return(VerificationResult(UNVERIFIED, None, None, None,
                           Str("No matching data found", None))), calls)
    ELSE LET entity == claim.entities[i]
             llama == defillama_query(w, entity)
             gecko == coingecko_query(w, entity)
         IN  IF llama.data # None
             THEN Outcome(Return(VerificationResult(VERIFIED,
                             Str("name", DefiLlamaName),
                             Str("str", llama.data.value), None,
                             Str("Entity found", entity))),
                          calls \o llama.calls)
             ELSE IF gecko.data # None
             THEN Outcome(IF ~IsNumber(gecko.data.value) THEN Raise("TypeError")
                          ELSE Return(VerificationResult(VERIFIED,
                                  Str("name", CoinGeckoName),
                                  Str("$,.2f", gecko.data.value), None,
                                  Str("Token found", entity))),
                          calls \o llama.calls \o gecko.calls)
             ELSE VerifyGeneralFrom(w, claim, i + 1,
                                    calls \o llama.calls \o gecko.calls)

_verify_general_claim(w, claim) == VerifyGeneralFrom(w, claim, 1, <<>>)

verify_single_claim(w, claim) ==
    IF claim.category = "tvl" THEN _verify_tvl_claim(w, claim)
    ELSE IF claim.category = "price" THEN _verify_price_claim(w, claim)
    ELSE IF claim.category = "percentage" THEN _verify_yield_claim(w, claim)
    ELSE _verify_general_claim(w, claim)

----------------------------------------------------------------------------
(* Claim extractor (claim_extractor.py).  The reply of the generative-text *)
(* collaborator is a sequence of tokens: a token is a piece of text (a     *)
(* fence, a bracket, a comma, a blank, a run of prose) or a JSON value     *)
(* written out in full (an object or a scalar).                            *)

Tok(c) == [kind |-> "char", c |-> c]

(* the fence of a code block, three backquotes *)
Fence == Tok("fence")
JsonTag == Tok("json")
Prose == Tok("txt")
Blank == Tok(" ")
Open == Tok("[")
Close == Tok("]")
Comma == Tok(",")

(* the tokens that are one character long *)
OneChar == {Blank, Open, Close, Comma}

Max(S) == CHOOSE x \in S : \A y \in S : x >= y

(* str.strip() *)
RECURSIVE Strip(_)
Strip(text) ==
    IF text = <<>> THEN text
    ELSE IF Head(text) = Blank THEN Strip(Tail(text))
    ELSE IF text[Len(text)] = Blank THEN Strip(SubSeq(text, 1, Len(text) - 1))
    ELSE text

(* str.find(tok, start): the first index at or after start, 0 for none *)
Find(text, tok, start) ==
    LET hits == {i \in start .. Len(text) : text[i] = tok}
    IN  IF hits = {} THEN 0 ELSE Min(hits)

(* str.rfind(tok): the last index, 0 for none *)
RFind(text, tok) ==
    LET hits == {i \in 1 .. Len(text) : text[i] = tok}
    IN  IF hits = {} THEN 0 ELSE Max(hits)

(* text.find of the fence with the json tag: a fence directly followed by *)
(* the tag                                                              *)
FindJsonFence(text) ==
    LET hits == {i \in 1 .. Len(text) - 1 :
                    text[i] = Fence /\ text[i + 1] = JsonTag}
    IN  IF hits = {} THEN 0 ELSE Min(hits)

(* text[:-1]: the last character goes; what is left of a longer token is   *)
(* a fragment of prose                                                     *)
DropLastChar(text) ==
    IF text = <<>> THEN text
    ELSE IF text[Len(text)] \in OneChar THEN SubSeq(text, 1, Len(text) - 1)
    ELSE SubSeq(text, 1, Len(text) - 1) \o <<Prose>>

(* text[start:end] with end = text.find(fence, start), which is -1 when    *)
(* the fence is not closed                                                 *)
FencedBlock(text, start) ==
    LET end == Find(text, Fence, start)
    IN  IF end = 0 THEN DropLastChar(SubSeq(text, start, Len(text)))
        ELSE SubSeq(text, start, end - 1)

(* text[text.find("["):text.rfind("]") + 1] *)
ArrayBounds_whole(text) == text

ArrayBounds(text) ==
    IF Find(text, Open, 1) = 0 THEN text
    ELSE SubSeq(text, Find(text, Open, 1), RFind(text, Close))

(* json.loads: a list of values, a value that is no list, or               *)
(* JSONDecodeError                                                         *)
JsonLoads(text) ==
    LET NotBlank(t) == t # Blank
        c == SelectSeq(text, NotBlank)
        n == Len(c)
    IN  IF /\ n >= 2 /\ c[1] = Open /\ c[n] = Close
           /\ \/ n = 2
              \/ /\ n % 2 = 1
                 /\ \A i \in 2 .. n - 1 :
                       IF i % 2 = 0 THEN c[i].kind # "char" ELSE c[i] = Comma
        THEN JsonList([i \in 1 .. (n - 1) \div 2 |-> c[2 * i]])
        ELSE IF n = 1 /\ c[1].kind # "char" THEN c[1]
        ELSE [kind |-> "JSONDecodeError"]

_parse_json_response(response_text) ==
    LET text == Strip(response_text)
        block == IF FindJsonFence(text) # 0
                 THEN Strip(FencedBlock(text, FindJsonFence(text) + 2))
                 ELSE IF Find(text, Fence, 1) # 0
                 THEN Strip(FencedBlock(text, Find(text, Fence, 1) + 1))
                 ELSE text
        data == JsonLoads(ArrayBounds(block))
    IN  IF data.kind = "list" THEN data.items ELSE <<>>

(* a JSON object with the given keys; dict.get(key, default) *)
ItemGet(item, key, default) == IF key \in item.keys THEN item[key] ELSE default

JsonString(text) == [kind |-> "string", text |-> text]

(* float(x) of a JSON value: a number, ValueError or TypeError *)
FloatOf(x) ==
    IF x.kind = "float" THEN x
    ELSE IF x.kind = "string"
    THEN IF /\ \A i \in 1 .. Len(x.text) : IsNumChar(x.text[i])
            /\ Float(x.text) # None
         THEN Float(x.text) ELSE [kind |-> "ValueError"]
    ELSE [kind |-> "TypeError"]

MinConfidence == Num(5, -1)

(* the loop over claims_data[:max_claims]; the result is the list of       *)
(* claims, or the exception that left the loop                             *)
RECURSIVE BuildClaims(_, _)
BuildClaims(items, claims) ==
    IF items = <<>> THEN [kind |-> "claims", claims |-> claims]
    ELSE LET item == Head(items)
         IN  IF item.kind # "object" THEN [kind |-> "AttributeError"]
             ELSE LET confidence == FloatOf(ItemGet(item, "confidence",
                                                    MinConfidence))
                      claim == [claim |-> ItemGet(item, "claim", <<>>),
                                category |-> ItemGet(item, "category", "other"),
                                entities |-> ItemGet(item, "entities",
                                                     JsonList(<<>>)),
                                original_text |-> ItemGet(item, "original_text",
                                                          <<>>),
                                confidence |-> confidence]
                  IN  IF confidence.kind = "TypeError" THEN confidence
                      ELSE IF confidence.kind = "ValueError"
                      THEN BuildClaims(Tail(items), claims)
                      ELSE IF /\ claim.claim # <<>>
                              /\ LeqTimes(MinConfidence, 1, confidence, 1)
                      THEN BuildClaims(Tail(items), Append(claims, claim))
                      ELSE BuildClaims(Tail(items), claims)

MinTextLength == 50
MaxTextLength == 15000
DefaultMaxClaims == 20

(* the text handed to the collaborator, by its length: text[:15000] + "..." *)
PromptText(text) ==
    IF text.len > MaxTextLength THEN [len |-> MaxTextLength + 3] ELSE text

(* a transcript is known by its length alone; reply is what the            *)
(* collaborator answers when called                                        *)
extract_claims_eager(text, reply, max_claims) ==
    LET calls == <<Called("create", PromptText(text))>>
    IN  IF text.len = 0 \/ text.len < MinTextLength
        THEN Outcome(Return(<<>>), calls)
        ELSE IF reply.raised THEN Outcome(Return(<<>>), calls)
        ELSE LET claims_data == _parse_json_response(reply.text)
                 built == BuildClaims(Take(claims_data, max_claims), <<>>)
             IN  IF built.kind = "claims"
                 THEN Outcome(Return(built.claims), calls)
                 ELSE Outcome(Return(<<>>), calls)

extract_claims(text, reply, max_claims) ==
    IF text.len = 0 \/ text.len < MinTextLength
    THEN Outcome(Return(<<>>), <<>>)
    ELSE LET calls == <<Called("create", PromptText(text))>>
         IN  IF reply.raised THEN Outcome(Return(<<>>), calls)
             ELSE LET claims_data == _parse_json_response(reply.text)
                      built == BuildClaims(Take(claims_data, max_claims), <<>>)
                  IN  IF built.kind = "claims"
                      THEN Outcome(Return(built.claims), calls)
                      ELSE Outcome(Return(<<>>), calls)

----------------------------------------------------------------------------
(* Inputs: one invocation of one operation, with its arguments.            *)

VideoData == [id : VideoIds, views : ViewsValues]

SeqsUpTo(S, n) == UNION {[1 .. k -> S] : k \in 0 .. n}

ViralityCalls ==
    [op : {"get_channel_category"}, subscribers : SubsValues]
    \cup [op : {"check_virality"}, views : ViewsValues, subscribers : SubsValues]
    \cup [op : {"filter_viral_videos"}, videos : SeqsUpTo(VideoData, MaxVideos),
          subscribers : SubsValues]

NoRet == [kind |-> "none"]

(* no verify_claims pass in progress *)
NoPasses == [pc |-> <<>>, out |-> <<>>, frames |-> <<>>, lists |-> <<>>]

(* the database after connect(): the tables exist and are empty *)
NoDb == [videos |-> <<>>, facts |-> <<>>, scripts |-> <<>>]

(* every endpoint answers 404 *)
NoWorld ==
    [protocol |-> [key \in {"aave", "solana"} |-> NotFound],
     chains |-> NotFound,
     pools |-> NotFound,
     price |-> [key \in {"aave", "solana", "wsol"} |-> NotFound],
     search |-> [key \in {"aave", "solana", "wsol"} |-> NotFound]]

----------------------------------------------------------------------------
(* Operations of the virality classifier.  The checker is constructed with *)
(* a configuration, then the pending call is executed.                     *)

InitVirality ==
    /\ thresholds \in ViralityThresholds
    /\ call \in ViralityCalls
    /\ ret = NoRet
    /\ reads = {}
    /\ world = NoWorld
    /\ log = <<>>
    /\ passes = NoPasses
    /\ db = NoDb
    /\ cycles = <<>>

GetChannelCategory ==
    /\ call.op = "get_channel_category"
    /\ ret.kind = "none"
    /\ ret' = Return(get_channel_category(thresholds, call.subscribers))
    /\ reads' = {}
    /\ UNCHANGED <<thresholds, call, world, log, passes, db, cycles>>

CheckVirality ==
    /\ call.op = "check_virality"
    /\ ret.kind = "none"
    /\ ret' \in check_virality(thresholds, call.views, call.subscribers)
    /\ reads' = ThresholdReads(thresholds, call.subscribers)
    /\ UNCHANGED <<thresholds, call, world, log, passes, db, cycles>>

FilterViralVideos ==
    /\ call.op = "filter_viral_videos"
    /\ ret.kind = "none"
    /\ ret' \in filter_viral_videos(thresholds, call.videos, call.subscribers, <<>>)
    /\ reads' = IF call.videos = <<>> THEN {}
                ELSE ThresholdReads(thresholds, call.subscribers)
    /\ UNCHANGED <<thresholds, call, world, log, passes, db, cycles>>

NextVirality == GetChannelCategory \/ CheckVirality \/ FilterViralVideos

SpecVirality == InitVirality /\ [][NextVirality]_vars

----------------------------------------------------------------------------
(* Inputs of the fact verifier: a claim and the answers of the endpoints.  *)

Entities == {"Aave", "Solana"}
EntityKeys == {LowerName(entity) : entity \in Entities}
CoinIds == {"wsol"}

TextTvl == <<"T", "V", "L", " ", "$", "1", "0", " ",
             "b", "i", "l", "l", "i", "o", "n">>
TextPrice == <<"p", "r", "i", "c", "e", " ", "$", "1", "0">>
TextApy == <<"A", "P", "Y", " ", "1", "0", "%">>
TextZero == <<"A", "P", "Y", " ", "0", "%">>
TextNoNumber == <<"n", "o", " ", "n", "u", "m", "b", "e", "r">>

ClaimTexts == {TextTvl, TextPrice, TextApy, TextZero, TextNoNumber}

RouteCategories == {"tvl", "price", "percentage", "other"}

ExtractedClaim ==
    [claim : ClaimTexts, category : RouteCategories,
     entities : SeqsUpTo(Entities, MaxEntities)]

(* observed values: TVL in billions around the claimed 10 billion, prices  *)
(* and APYs around the claimed 10                                          *)
TvlValues == {Num(0, 0), Num(6, 9), Num(8, 9), Num(11, 9), Num(12, 9), Num(13, 9)}
PriceValues == {Num(0, 0), Num(8, 0), Num(9, 0), Num(11, 0), Num(12, 0)}
ApyValues == {Num(6, 0), Num(7, 0), Num(13, 0), Num(14, 0)}

TvlEntry(value) == [totalLiquidityUSD |-> value]

ProtocolResponses ==
    {Exception, NotFound, Ok([tvl |-> Missing]), Ok([tvl |-> None]),
     Ok([tvl |-> JsonList(<<>>)]),
     Ok([tvl |-> JsonList(<<TvlEntry(Num(6, 9)), TvlEntry(Num(11, 9))>>)]),
     Ok([tvl |-> JsonList(<<TvlEntry(Missing)>>)])}
    \cup {Ok([tvl |-> value]) : value \in TvlValues}

ChainData(name) == [name |-> name, tvl |-> Num(5, 9)]

ChainsResponses ==
    {NotFound, Ok(<<>>), Ok(<<ChainData("Solana")>>),
     Ok(<<ChainData("aave"), ChainData("Solana")>>),
     Ok(<<[name |-> "Solana", tvl |-> Missing]>>)}

PriceResponses ==
    {Exception, NotFound, Ok(Missing), Ok([usd |-> Missing]), Ok([usd |-> None])}
    \cup {Ok([usd |-> value]) : value \in PriceValues}

Pool == [project : {"Aave", "solana"},
         apy : ApyValues \cup {Missing, None}]

(* ten pools outside the band of a claimed 10, then one inside it *)
ElevenPools ==
    [i \in 1 .. 11 |-> [project |-> "Aave",
                        apy |-> IF i = 11 THEN Num(11, 0) ELSE Num(14, 0)]]

(* a pool at the edge of the band of a claimed 10, then a closer one *)
EdgeThenClose ==
    <<[project |-> "Aave", apy |-> Num(13, 0)],
      [project |-> "Aave", apy |-> Num(11, 0)]>>

PoolsResponses ==
    {Exception, NotFound, Ok(ElevenPools), Ok(EdgeThenClose)}
    \cup {Ok(pools) : pools \in SeqsUpTo(Pool, MaxPools)}

(* the worlds a route is tried against: the endpoints the route can        *)
(* depend on take every answer, the others answer 404                      *)
PriceWorlds(priceResponses) ==
    {[NoWorld EXCEPT !.price = price @@ [key \in CoinIds |-> wsol],
                     !.search = search @@ [key \in CoinIds |-> again]]
       : price \in [EntityKeys -> priceResponses],
         wsol \in {Ok(Missing), Ok([usd |-> Num(9, 0)])},
         search \in [EntityKeys -> {Ok(<<>>), Ok(<<"wsol">>)}],
         again \in {NotFound, Ok(<<"wsol">>)}}

Worlds(category) ==
    IF category = "tvl"
    THEN {[NoWorld EXCEPT !.protocol = protocol, !.chains = chains]
           : protocol \in [EntityKeys -> ProtocolResponses],
             chains \in ChainsResponses}
    ELSE IF category = "price" THEN PriceWorlds(PriceResponses)
    ELSE IF category = "percentage"
    THEN {[NoWorld EXCEPT !.pools = pools] : pools \in PoolsResponses}
    ELSE {[w EXCEPT !.protocol = protocol, !.chains = chains]
           : w \in PriceWorlds({Ok(Missing), Ok([usd |-> None]),
                                Ok([usd |-> Num(9, 0)])}),
             protocol \in [EntityKeys -> {NotFound, Ok([tvl |-> Num(12, 9)])}],
             chains \in ChainsResponses}

(* texts for magnitude extraction: one or two mentions, each a number     *)
(* (possibly none) and the word that follows it                            *)
MaxMentions == 2

NumberWords ==
    {<<>>, <<"1", "0">>, <<"1", ".", "5">>,
     <<"1", ",", "5", "0", "0", ",", "0", "0", "0">>, <<"1", ".", "2", ".", "3">>}

BillionWords == NumberPatterns[1].words
MillionWords == NumberPatterns[2].words
ThousandWords == NumberPatterns[3].words

OrdinaryWords ==
    {<<>>, <<"u", "s", "e", "r", "s">>, <<"m", "a", "r", "k", "e", "t", "s">>,
     <<"k", "i", "l", "o", "s">>}

Mention == [number : NumberWords,
            word : BillionWords \cup MillionWords \cup ThousandWords
                   \cup OrdinaryWords]

RECURSIVE MentionsText(_)
MentionsText(mentions) ==
    IF mentions = <<>> THEN <<>>
    ELSE <<"$">> \o Head(mentions).number \o <<" ">> \o Head(mentions).word
         \o <<" ">> \o MentionsText(Tail(mentions))

ValidNumber(number) == number # <<>> /\ Float(Remove(number, ",")) # None

NumberCalls ==
    {[op |-> "_extract_number", mentions |-> mentions,
      text |-> <<"T", "V", "L", " ">> \o MentionsText(mentions)]
       : mentions \in {m \in SeqsUpTo(Mention, MaxMentions) :
                          Len(m) > 1 => \A i \in 1 .. Len(m) :
                                           ValidNumber(m[i].number)}}

(* the lookups of the source adapters, called on their own *)
LookupCalls ==
    [op : {"get_protocol_tvl", "get_chain_tvl", "get_token_price"},
     query : Entities]

DefaultThresholds ==
    [small |-> [max_subs |-> 1, ratio |-> 15000],
     medium |-> [max_subs |-> 2, ratio |-> 10000],
     large |-> [max_subs |-> None, ratio |-> 3333]]

----------------------------------------------------------------------------
(* Operations of the fact verifier *)

InitVerifier ==
    /\ thresholds = DefaultThresholds
    /\ \/ \E claim \in ExtractedClaim :
             /\ call = [op |-> "verify_single_claim", claim |-> claim]
             /\ world \in Worlds(claim.category)
       \/ call \in NumberCalls /\ world = NoWorld
       \/ \E lookup \in LookupCalls :
             /\ call = lookup
             /\ world \in Worlds(IF lookup.op = "get_token_price"
                                 THEN "price" ELSE "tvl")
    /\ ret = NoRet
    /\ reads = {}
    /\ log = <<>>
    /\ passes = NoPasses
    /\ db = NoDb
    /\ cycles = <<>>

VerifySingleClaim ==
    /\ call.op = "verify_single_claim"
    /\ ret.kind = "none"
    /\ LET outcome == verify_single_claim(world, call.claim)
       IN  /\ ret' = outcome.out
           /\ log' = outcome.calls
    /\ UNCHANGED <<thresholds, call, reads, world, passes, db, cycles>>

ExtractNumber ==
    /\ call.op = "_extract_number"
    /\ ret.kind = "none"
    /\ ret' = Return(_extract_number(call.text))
    /\ UNCHANGED <<thresholds, call, reads, world, log, passes, db, cycles>>

(* a lookup returns its data; the log keeps the requests it sent *)
Lookup(op, result) ==
    /\ call.op = op
    /\ ret.kind = "none"
    /\ ret' = Return(result.data)
    /\ log' = result.calls
    /\ UNCHANGED <<thresholds, call, reads, world, passes, db, cycles>>

GetProtocolTvl ==
    /\ call.op = "get_protocol_tvl"
    /\ Lookup("get_protocol_tvl", get_protocol_tvl(world, call.query))

GetChainTvl ==
    /\ call.op = "get_chain_tvl"
    /\ Lookup("get_chain_tvl", get_chain_tvl(world, call.query))

GetTokenPrice ==
    /\ call.op = "get_token_price"
    /\ Lookup("get_token_price", get_token_price(world, call.query))

NextVerifier ==
    \/ VerifySingleClaim
    \/ ExtractNumber
    \/ GetProtocolTvl
    \/ GetChainTvl
    \/ GetTokenPrice

SpecVerifier == InitVerifier /\ [][NextVerifier]_vars

----------------------------------------------------------------------------
(* Inputs of the claim extractor: a transcript and the collaborator's      *)
(* reply.                                                                  *)

MaxItems == 2

AllKeys == {"claim", "category", "entities", "confidence"}

Object(keys, claim, category, entities, confidence) ==
    [kind |-> "object", keys |-> keys, claim |-> claim, category |-> category,
     entities |-> entities, confidence |-> confidence]

TextNews == <<"n", "e", "w", "s">>

ItemTvl == Object(AllKeys, TextTvl, "tvl", JsonList(<<"Aave">>), Num(9, -1))
ItemLow == Object(AllKeys, TextPrice, "price", JsonList(<<"Solana">>), Num(3, -1))
ItemEdge == Object(AllKeys, TextPrice, "price", JsonList(<<"Solana">>), Num(5, -1))
ItemStringConfidence ==
    Object(AllKeys, TextApy, "percentage", JsonList(<<"Aave">>),
           JsonString(<<"0", ".", "9">>))
ItemWordConfidence ==
    Object(AllKeys, TextApy, "percentage", JsonList(<<"Aave">>),
           JsonString(<<"h", "i", "g", "h">>))
ItemNullConfidence ==
    Object(AllKeys, TextTvl, "tvl", JsonList(<<"Aave">>), None)
ItemNews == Object(AllKeys, TextNews, "news", JsonList(<<>>), Num(15, -1))
ItemEmptyClaim == Object(AllKeys, <<>>, "tvl", JsonList(<<"Aave">>), Num(9, -1))
ItemBare == Object({"claim"}, TextNoNumber, "other", JsonList(<<>>), MinConfidence)
ItemNullEntities == Object(AllKeys, TextTvl, "tvl", None, Num(9, -1))
ItemScalar == JsonString(<<"x">>)

Items ==
    {ItemTvl, ItemLow, ItemEdge, ItemStringConfidence, ItemWordConfidence,
     ItemNullConfidence, ItemNews, ItemEmptyClaim, ItemBare, ItemNullEntities,
     ItemScalar}

(* the text of a JSON array *)
ArrayText(items) ==
    <<Open>>
    \o [i \in 1 .. (IF items = <<>> THEN 0 ELSE 2 * Len(items) - 1) |->
          IF i % 2 = 1 THEN items[(i + 1) \div 2] ELSE Comma]
    \o <<Close>>

(* what may stand around the array *)
ProseBefore == {<<>>, <<Prose, Blank>>, <<Prose, Open, Prose, Close, Blank>>}
ProseAfter == {<<>>, <<Blank, Prose>>, <<Blank, Prose, Open, Prose, Close>>}
FenceOpen == {<<>>, <<Fence, JsonTag, Blank>>, <<Fence, Blank>>}
FenceClose == {<<>>, <<Blank, Fence>>}

HasBracket(text) == \E i \in 1 .. Len(text) : text[i] \in {Open, Close}

(* a reply that holds one array: its text, the items of the array, and     *)
(* how the array is wrapped                                                *)
WrappedReplies(arrays) ==
    {[text |-> before \o open \o ArrayText(items) \o close \o after,
      holds |-> JsonList(items),
      fenced |-> open # <<>> /\ close # <<>>,
      loose |-> (open # <<>>) # (close # <<>>),
      brackets |-> HasBracket(before) \/ HasBracket(after)]
       : before \in ProseBefore, open \in FenceOpen, items \in arrays,
         close \in FenceClose, after \in ProseAfter}

(* replies that hold no array *)
OtherReplies ==
    {[text |-> text, holds |-> None, fenced |-> FALSE, loose |-> FALSE,
      brackets |-> FALSE]
       : text \in {<<>>, <<Prose>>, <<ItemTvl>>, <<Open, ItemTvl>>,
                   <<ItemTvl, Close>>, <<Open, ItemTvl, ItemLow, Close>>,
                   <<Fence, JsonTag>>, <<Fence, JsonTag, Blank, ItemTvl, Blank, Fence>>}}

ReplyTexts ==
    WrappedReplies({<<>>, <<ItemTvl>>, <<ItemLow>>, <<ItemLow, ItemTvl>>})
    \cup {[text |-> ArrayText(items), holds |-> JsonList(items),
           fenced |-> FALSE, loose |-> FALSE, brackets |-> FALSE]
            : items \in SeqsUpTo(Items, MaxItems)}
    \cup OtherReplies

Failure == [raised |-> TRUE]
Reply(reply) == [raised |-> FALSE, text |-> reply.text]

Transcripts ==
    [len : {0, 1, MinTextLength - 1, MinTextLength, MinTextLength + 1,
            MaxTextLength, MaxTextLength + 1}]

MaxClaimsValues == {1, 2, DefaultMaxClaims}

ExtractorCalls ==
    [op : {"_parse_json_response"}, reply : ReplyTexts]
    \cup [op : {"extract_claims"}, text : Transcripts,
          reply : ReplyTexts \cup {Failure}, max_claims : MaxClaimsValues]

----------------------------------------------------------------------------
(* Operations of the claim extractor *)

InitExtractor ==
    /\ thresholds = DefaultThresholds
    /\ call \in ExtractorCalls
    /\ ret = NoRet
    /\ reads = {}
    /\ world = NoWorld
    /\ log = <<>>
    /\ passes = NoPasses
    /\ db = NoDb
    /\ cycles = <<>>

ParseJsonResponse ==
    /\ call.op = "_parse_json_response"
    /\ ret.kind = "none"
    /\ ret' = Return(_parse_json_response(call.reply.text))
    /\ UNCHANGED <<thresholds, call, reads, world, log, passes, db, cycles>>

ExtractClaims ==
    /\ call.op = "extract_claims"
    /\ ret.kind = "none"
    /\ LET outcome == extract_claims(call.text,
                         IF call.reply = Failure THEN Failure
                         ELSE Reply(call.reply), call.max_claims)
       IN  /\ ret' = outcome.out
           /\ log' = outcome.calls
    /\ UNCHANGED <<thresholds, call, reads, world, passes, db, cycles>>

NextExtractor == ParseJsonResponse \/ ExtractClaims

SpecExtractor == InitExtractor /\ [][NextExtractor]_vars

----------------------------------------------------------------------------
(* verify_claims (verifier.py).  A pass is one invocation; two passes on   *)
(* the same FactVerifier interleave at their await points, which are the   *)
(* requests of the adapters.                                               *)

VerifiedFact(video_id, claim, status, source, verified_value) ==
    [video_id |-> video_id, claim |-> claim, status |-> status,
     source |-> source, verified_value |-> verified_value]

FactOf(video_id, claim, result) ==
    VerifiedFact(video_id, claim.claim, result.status, result.source,
                 result.verified_value)

(* verify_single_claim on a claim as the extractor built it: the loop      *)
(* "for entity in claim.entities" raises TypeError on what is no list      *)
VerifyClaim(w, claim) ==
    IF claim.entities.kind # "list" THEN Outcome(Raise("TypeError"), <<>>)
    ELSE verify_single_claim(w, [claim |-> claim.claim,
                                 category |-> claim.category,
                                 entities |-> claim.entities.items])

(* the loop over the claims, run without interruption *)
RECURSIVE VerifyEach(_, _, _, _, _)
VerifyEach(w, claims, video_id, verified_facts, calls) ==
    IF claims = <<>> THEN Outcome(Return(verified_facts), calls)
    ELSE LET outcome == VerifyClaim(w, Head(claims))
         IN  IF outcome.out.kind = "raise"
             THEN Outcome(outcome.out, calls \o outcome.calls)
             ELSE VerifyEach(w, Tail(claims), video_id,
                             Append(verified_facts,
                                    FactOf(video_id, Head(claims),
                                           outcome.out.value)),
                             calls \o outcome.calls)

verify_claims(w, reply, transcript_text, video_id) ==
    LET extracted == extract_claims(transcript_text, reply, DefaultMaxClaims)
    IN  IF extracted.out.value = <<>>
        THEN Outcome(Return(<<>>), extracted.calls)
        ELSE VerifyEach(w, extracted.out.value, video_id, <<>>,
                        extracted.calls)

(* where a pass keeps its loop position (claims, the index of the claim    *)
(* under verification, the requests of that claim already answered) and    *)
(* where it keeps verified_facts: both are locals of the coroutine         *)
Iter_instance(p) == 1

Iter(p) == p

Local_instance(p) == 1

Local(p) == p

NoFrame == [claims |-> <<>>, k |-> 1, j |-> 0]

(* pass p runs from its loop position to its next await or to its end *)
RECURSIVE Proceed(_, _, _, _)
Proceed(ps, w, video_id, p) ==
    LET frame == ps.frames[Iter(p)]
    IN  IF frame.k > Len(frame.claims)
        THEN [ps EXCEPT !.pc[p] = "done",
                        !.out[p] = Return(ps.lists[Local(p)])]
        ELSE LET claim == frame.claims[frame.k]
                 outcome == VerifyClaim(w, claim)
             IN  IF frame.j < Len(outcome.calls)
                 THEN [ps EXCEPT !.pc[p] = "awaiting"]
                 ELSE IF outcome.out.kind = "raise"
                 THEN [ps EXCEPT !.pc[p] = "done", !.out[p] = outcome.out]
                 ELSE Proceed(
                        [ps EXCEPT !.frames[Iter(p)] =
                                       [frame EXCEPT !.k = frame.k + 1, !.j = 0],
                                   !.lists[Local(p)] =
                                       Append(@, FactOf(video_id, claim,
                                                        outcome.out.value))],
                        w, video_id, p)

(* the request pass p awaits *)
InFlight(ps, w, p) ==
    LET frame == ps.frames[Iter(p)]
    IN  [pass |-> p,
         request |-> VerifyClaim(w, frame.claims[frame.k]).calls[frame.j + 1]]

Issued(ps, w, p) ==
    IF ps.pc[p] = "awaiting" THEN <<InFlight(ps, w, p)>> ELSE <<>>

----------------------------------------------------------------------------
(* Inputs of verify_claims: two passes and the answers of the endpoints *)

PassItems ==
    {<<>>, <<ItemTvl>>, <<ItemTvl, ItemEdge>>, <<ItemNullEntities>>,
     <<ItemStringConfidence, ItemBare>>, <<ItemLow, ItemNullConfidence>>}

PassReplies ==
    {Failure} \cup {[raised |-> FALSE, text |-> ArrayText(items)]
                      : items \in PassItems}

Run == [transcript_text : [len : {MinTextLength - 1, MinTextLength}],
        reply : PassReplies, video_id : VideoIds]

PassCalls ==
    {[op |-> "verify_claims", runs |-> <<first, second>>]
       : first \in {r \in Run : r.video_id = "va"}, second \in Run}

PassWorlds ==
    {NoWorld,
     [NoWorld EXCEPT
        !.protocol["aave"] = Ok([tvl |-> Num(11, 9)]),
        !.price["solana"] = Ok([usd |-> Num(12, 0)]),
        !.pools = Ok(<<[project |-> "Aave", apy |-> Num(11, 0)]>>)],
     [NoWorld EXCEPT
        !.protocol["aave"] = Ok([tvl |-> JsonList(<<TvlEntry(None)>>)]),
        !.price["solana"] = Ok(Missing),
        !.search["solana"] = Ok(<<"wsol">>),
        !.price["wsol"] = Ok([usd |-> Num(9, 0)])]}

----------------------------------------------------------------------------
(* Operations of verify_claims *)

InitPasses ==
    /\ thresholds = DefaultThresholds
    /\ call \in PassCalls
    /\ ret = NoRet
    /\ reads = {}
    /\ world \in PassWorlds
    /\ log = <<>>
    /\ passes = [pc |-> <<"start", "start">>, out |-> <<NoRet, NoRet>>,
                 frames |-> <<NoFrame, NoFrame>>, lists |-> <<<<>>, <<>>>>]
    /\ db = NoDb
    /\ cycles = <<>>

(* from the call to the first await or to the return *)
Start(p) ==
    /\ call.op = "verify_claims"
    /\ passes.pc[p] = "start"
    /\ LET run == call.runs[p]
           extracted == extract_claims(run.transcript_text, run.reply,
                                       DefaultMaxClaims)
           next ==
               IF extracted.out.value = <<>>
               THEN [passes EXCEPT !.pc[p] = "done", !.out[p] = Return(<<>>)]
               ELSE Proceed([passes EXCEPT
                               !.frames[Iter(p)] =
                                   [claims |-> extracted.out.value,
                                    k |-> 1, j |-> 0],
                               !.lists[Local(p)] = <<>>],
                            world, run.video_id, p)
       IN  /\ passes' = next
           /\ log' = log
                     \o [i \in 1 .. Len(extracted.calls) |->
                           [pass |-> p, request |-> extracted.calls[i]]]
                     \o Issued(next, world, p)
    /\ UNCHANGED <<thresholds, call, ret, reads, world, db, cycles>>

(* the awaited request is answered: on to the next await or to the return *)
Resume(p) ==
    /\ call.op = "verify_claims"
    /\ passes.pc[p] = "awaiting"
    /\ LET next == Proceed([passes EXCEPT !.frames[Iter(p)].j = @ + 1],
                           world, call.runs[p].video_id, p)
       IN  /\ passes' = next
           /\ log' = log \o Issued(next, world, p)
    /\ UNCHANGED <<thresholds, call, ret, reads, world, db, cycles>>

NextPasses == \E p \in 1 .. 2 : Start(p) \/ Resume(p)

SpecPasses == InitPasses /\ [][NextPasses]_vars

----------------------------------------------------------------------------
(* Database (database/models.py).  A table is the sequence of its rows in  *)
(* insertion order; the AUTOINCREMENT id of a row is its position.         *)

video_exists(d, video_id) ==
    \E i \in 1 .. Len(d.videos) : d.videos[i].id = video_id

(* INSERT ... ON CONFLICT(id) DO UPDATE: views are refreshed, a stored     *)
(* transcript is kept                                                      *)
insert_video(d, video) ==
    IF video_exists(d, video.id)
    THEN [d EXCEPT !.videos =
            [i \in 1 .. Len(@) |->
               IF @[i].id = video.id THEN [@[i] EXCEPT !.views = video.views]
               ELSE @[i]]]
    ELSE [d EXCEPT !.videos =
            Append(@, [id |-> video.id, views |-> video.views,
                       transcript |-> None])]

update_video_transcript(d, video_id, transcript) ==
    [d EXCEPT !.videos =
       [i \in 1 .. Len(@) |->
          IF @[i].id = video_id THEN [@[i] EXCEPT !.transcript = transcript]
          ELSE @[i]]]

StoredFact(id, fact) ==
    [id |-> id, video_id |-> fact.video_id, claim |-> fact.claim,
     status |-> fact.status, source |-> fact.source,
     verified_value |-> fact.verified_value]

(* an insert that rewrites the row already stored for the claim *)
insert_fact_amend(d, fact) ==
    IF \E i \in 1 .. Len(d.facts) : d.facts[i].claim = fact.claim
    THEN [d EXCEPT !.facts =
            [i \in 1 .. Len(@) |->
               IF @[i].claim = fact.claim THEN StoredFact(i, fact) ELSE @[i]]]
    ELSE [d EXCEPT !.facts = Append(@, StoredFact(Len(@) + 1, fact))]

insert_fact(d, fact) ==
    [d EXCEPT !.facts = Append(@, StoredFact(Len(@) + 1, fact))]

insert_script(d, source_video_id) ==
    [d EXCEPT !.scripts =
       Append(@, [id |-> Len(@) + 1, source_video_id |-> source_video_id,
                  status |-> "draft"])]

update_script_status(d, script_id, status) ==
    [d EXCEPT !.scripts =
       [i \in 1 .. Len(@) |->
          IF @[i].id = script_id THEN [@[i] EXCEPT !.status = status]
          ELSE @[i]]]

script_exists_for_video(d, video_id) ==
    \E i \in 1 .. Len(d.scripts) : d.scripts[i].source_video_id = video_id

----------------------------------------------------------------------------
(* Monitoring cycle (main.py).  The collaborators of _process_video answer *)
(* as a plan says: the transcript fetched (None when there is none),       *)
(* whether the structure analysis and the script generation succeed, and   *)
(* the reply of the generative-text collaborator to the claim extraction.  *)

(* the loop of _find_viral_videos over the viral videos of a channel *)
RECURSIVE SaveNew(_, _, _)
SaveNew(d, viral, all_viral) ==
    IF viral = <<>> THEN [db |-> d, all_viral |-> all_viral]
    ELSE IF ~video_exists(d, Head(viral).id)
         THEN SaveNew(insert_video(d, Head(viral)), Tail(viral),
                      Append(all_viral, Head(viral)))
         ELSE SaveNew(d, Tail(viral), all_viral)

_find_viral_videos(d, viral) == SaveNew(d, viral, <<>>)

(* for fact in verified_facts: await self.db.insert_fact(fact) *)
RECURSIVE InsertFacts(_, _)
InsertFacts(d, verified_facts) ==
    IF verified_facts = <<>> THEN d
    ELSE InsertFacts(insert_fact(d, Head(verified_facts)), Tail(verified_facts))

Processed(d, out, inserted) == [db |-> d, out |-> out, inserted |-> inserted]

(* steps 3 and 4 of _process_video, given what verify_claims returned or   *)
(* raised                                                                  *)
SaveFacts(d, video, plan, verified) ==
    IF verified.kind = "raise" THEN Processed(d, verified, 0)
    ELSE IF ~plan.generated
    THEN Processed(InsertFacts(d, verified.value), Return(None),
                   Len(verified.value))
    ELSE Processed(insert_script(InsertFacts(d, verified.value), video.id),
                   Return([source_video_id |-> video.id]),
                   Len(verified.value))

_process_video(d, w, video, plan) ==
    IF plan.transcript = None THEN Processed(d, Return(None), 0)
    ELSE IF ~plan.structure
    THEN Processed(update_video_transcript(d, video.id, plan.transcript),
                   Return(None), 0)
    ELSE SaveFacts(update_video_transcript(d, video.id, plan.transcript),
                   video, plan,
                   verify_claims(w, plan.reply, plan.transcript, video.id).out)

(* what a cycle did: the ids of the viral videos the filter returned, of   *)
(* those new to the database, of those passed to _process_video, of those  *)
(* skipped for having a script and of those a script was generated for,    *)
(* the number of insert_fact calls, and whether the cycle ended in its     *)
(* exception handler                                                       *)
Cycle(viral, found, processed, skipped, scripted, inserted, error) ==
    [viral |-> viral, found |-> found, processed |-> processed,
     skipped |-> skipped, scripted |-> scripted, inserted |-> inserted,
     error |-> error]

Ids(videos) == [i \in 1 .. Len(videos) |-> videos[i].id]

(* the loop "for video in viral_videos" of run_monitoring_cycle: an        *)
(* exception of _process_video leaves the loop.  AfterVideo is the rest    *)
(* of the loop once _process_video has ended as done says.                 *)
RECURSIVE ProcessEach(_, _, _, _, _), AfterVideo(_, _, _, _, _, _)
ProcessEach(d, w, videos, plans, cycle) ==
    IF videos = <<>> THEN [db |-> d, cycle |-> cycle]
    ELSE IF script_exists_for_video(d, Head(videos).id)
    THEN ProcessEach(d, w, Tail(videos), plans,
                     [cycle EXCEPT !.skipped = Append(@, Head(videos).id)])
    ELSE AfterVideo(w, Tail(videos), plans, cycle, Head(videos).id,
                    _process_video(d, w, Head(videos), plans[Head(videos).id]))

AfterVideo(w, videos, plans, cycle, video_id, done) ==
    IF done.out.kind = "raise"
    THEN [db |-> done.db,
          cycle |-> [cycle EXCEPT !.processed = Append(@, video_id),
                                  !.error = TRUE]]
    ELSE ProcessEach(done.db, w, videos, plans,
           [cycle EXCEPT
              !.processed = Append(@, video_id),
              !.inserted = @ + done.inserted,
              !.scripted = IF done.out.value = None THEN @
                           ELSE Append(@, video_id)])

(* filtered is what filter_viral_videos returned or raised for the recent  *)
(* videos of the channel                                                   *)
run_monitoring_cycle(d, w, filtered, plans) ==
    IF filtered.kind = "raise"
    THEN [db |-> d, cycle |-> Cycle(<<>>, <<>>, <<>>, <<>>, <<>>, 0, TRUE)]
    ELSE LET found == _find_viral_videos(d, filtered.value)
         IN  ProcessEach(found.db, w, found.all_viral, plans,
                         Cycle(Ids(filtered.value), Ids(found.all_viral),
                               <<>>, <<>>, <<>>, 0, FALSE))

(* the recent videos of the channel, one above and one below the ratio *)
RecentVideos == SeqsUpTo([id : VideoIds, views : {1, 3}], MaxVideos)

MonitorReplies ==
    {[raised |-> FALSE, text |-> ArrayText(items)]
       : items \in {<<ItemTvl>>, <<ItemNullEntities>>}}

ProcessPlans ==
    [transcript : {None}, structure : {FALSE}, reply : {Failure},
     generated : {FALSE}]
    \cup [transcript : {[len |-> MinTextLength]}, structure : {FALSE},
          reply : {Failure}, generated : {FALSE}]
    \cup [transcript : {[len |-> MinTextLength]}, structure : {TRUE},
          reply : MonitorReplies, generated : BOOLEAN]

InitMonitor ==
    /\ thresholds = DefaultThresholds
    /\ call = [op |-> "run_monitoring_cycle"]
    /\ ret = NoRet
    /\ reads = {}
    /\ world \in PassWorlds
    /\ log = <<>>
    /\ passes = NoPasses
    /\ db = NoDb
    /\ cycles = <<>>

(* the cycle leaves the database as ran.db and is recorded as ran.cycle *)
EndCycle(ran) ==
    /\ db' = ran.db
    /\ cycles' = Append(cycles, ran.cycle)

RunMonitoringCycle ==
    /\ call.op = "run_monitoring_cycle"
    /\ Len(cycles) < MaxCycles
    /\ \E videos \in RecentVideos, subscribers \in {2},
          plans \in [VideoIds -> ProcessPlans] :
          \E filtered \in filter_viral_videos(thresholds, videos, subscribers,
                                              <<>>) :
             EndCycle(run_monitoring_cycle(db, world, filtered, plans))
    /\ UNCHANGED <<thresholds, call, ret, reads, world, log, passes>>

(* the approve and reject buttons of the Telegram bot *)
UpdateScriptStatus ==
    /\ call.op = "run_monitoring_cycle"
    /\ \E script_id \in 1 .. Len(db.scripts), status \in {"approved", "rejected"} :
          db' = update_script_status(db, script_id, status)
    /\ UNCHANGED <<thresholds, call, ret, reads, world, log, passes, cycles>>

NextMonitor == RunMonitoringCycle \/ UpdateScriptStatus

SpecMonitor == InitMonitor /\ [][NextMonitor]_vars

Init ==
    InitVirality \/ InitVerifier \/ InitExtractor \/ InitPasses \/ InitMonitor

Next ==
    NextVirality \/ NextVerifier \/ NextExtractor \/ NextPasses \/ NextMonitor

Spec == Init /\ [][Next]_vars

----------------------------------------------------------------------------
(* Properties of the virality classifier, stated over the call and what it *)
(* returned.                                                               *)

Abs(x) == IF x < 0 THEN -x ELSE x

Returned(op) == call.op = op /\ ret.kind # "none"

(* the ratio configured for the category a subscriber count selects *)
SelectedRatio(s) ==
    IF s <= thresholds.small.max_subs THEN thresholds.small.ratio
    ELSE IF s <= thresholds.medium.max_subs THEN thresholds.medium.ratio
    ELSE thresholds.large.ratio

(* score (in thousandths) is views / subscribers rounded to 3 decimals *)
IsRounded(score, views, subscribers) ==
    2 * Abs(views * ScoreDen - score * subscribers) <= subscribers

(* a score in thousandths, in units of 1 / RatioDen *)
ScoreInRatioUnits(score) == score * (RatioDen \div ScoreDen)

(* C1: for views >= 0 and subscribers > 0, check_virality returns          *)
(* is_viral = TRUE exactly when the unrounded quotient views / subscribers *)
(* is >= the ratio configured for the category of that subscriber count.   *)
C1_ViralIffQuotientAtLeastRatio ==
    (Returned("check_virality") /\ call.views >= 0 /\ call.subscribers > 0)
    => /\ ret.kind = "return"
       /\ ret.value.is_viral =
            (call.views * RatioDen >= SelectedRatio(call.subscribers) * call.subscribers)

(* a video whose quotient equals the ratio exactly is viral *)
C1_Witness ==
    /\ Returned("check_virality") /\ ret.kind = "return"
    /\ call.views > 0 /\ call.subscribers > 0
    /\ call.views * RatioDen = SelectedRatio(call.subscribers) * call.subscribers
    /\ ret.value.is_viral

(* C2 as stated: for subscribers > 0 the returned score is the quotient    *)
(* rounded to 3 decimals and is_viral equals (returned score >= returned   *)
(* threshold_used).                                                        *)
C2_ReturnedFieldsAgree ==
    (Returned("check_virality") /\ call.subscribers > 0)
    => /\ ret.kind = "return"
       /\ IsRounded(ret.value.score, call.views, call.subscribers)
       /\ ret.value.is_viral =
            (ScoreInRatioUnits(ret.value.score) >= ret.value.threshold_used)

(* C2 amended: for subscribers > 0 the returned score is the quotient      *)
(* rounded to 3 decimals, is_viral equals (unrounded quotient >= returned  *)
(* threshold_used), and is_viral equals (returned score >= returned        *)
(* threshold_used) whenever the returned score is more than 0.0005 away    *)
(* from threshold_used.                                                    *)
C2_ScoreRoundedVerdictUnrounded ==
    (Returned("check_virality") /\ call.subscribers > 0)
    => /\ ret.kind = "return"
       /\ IsRounded(ret.value.score, call.views, call.subscribers)
       /\ ret.value.threshold_used = SelectedRatio(call.subscribers)
       /\ ret.value.is_viral =
            (call.views * RatioDen >= ret.value.threshold_used * call.subscribers)
       /\ (2 * Abs(ScoreInRatioUnits(ret.value.score) - ret.value.threshold_used)
             > RatioDen \div ScoreDen)
          => (ret.value.is_viral =
                (ScoreInRatioUnits(ret.value.score) >= ret.value.threshold_used))

(* a quotient just under the threshold whose rounded score reaches it *)
C2_Witness ==
    /\ Returned("check_virality") /\ ret.kind = "return"
    /\ call.subscribers > 0
    /\ ~ret.value.is_viral
    /\ ScoreInRatioUnits(ret.value.score) >= ret.value.threshold_used

(* C3: with subscribers <= 0 check_virality returns is_viral = FALSE,      *)
(* score 0 and category "unknown" for every views, without raising and     *)
(* without reading any threshold.                                          *)
C3_NoSubscribersIsUnknown ==
    (Returned("check_virality") /\ call.subscribers <= 0)
    => /\ ret.kind = "return"
       /\ ret.value.is_viral = FALSE
       /\ ret.value.score = 0
       /\ ret.value.channel_category = "unknown"
       /\ reads = {}

C3_Witness ==
    /\ Returned("check_virality") /\ ret.kind = "return"
    /\ call.subscribers = 0 /\ call.views > 0
    /\ ret.value.channel_category = "unknown"

(* C4 as stated: get_channel_category returns small for subscribers <=     *)
(* small.max_subs, medium for small.max_subs < subscribers <=              *)
(* medium.max_subs, large otherwise; exactly small.max_subs subscribers is *)
(* small and small.max_subs + 1 subscribers is medium.                     *)
C4_CategoryBoundaries ==
    Returned("get_channel_category")
    => LET s == call.subscribers
           small == thresholds.small.max_subs
           medium == thresholds.medium.max_subs
       IN  /\ ret.kind = "return"
           /\ (s <= small) => ret.value = "small"
           /\ (small < s /\ s <= medium) => ret.value = "medium"
           /\ ~(s <= small) /\ ~(small < s /\ s <= medium) => ret.value = "large"
           /\ (s = small) => ret.value = "small"
           /\ (s = small + 1) => ret.value = "medium"

(* C5 as stated: every accepted configuration has small.max_subs <         *)
(* medium.max_subs, and each of small, medium, large is the category of    *)
(* some non-negative subscriber count.                                     *)
C5_BreakpointsPartition ==
    /\ thresholds.small.max_subs < thresholds.medium.max_subs
    /\ \A category \in {"small", "medium", "large"} :
         \E s \in 0 .. MaxBreak + 1 :
            get_channel_category(thresholds, s) = category

(* C6: filter_viral_videos returns, in input order, one Video for each     *)
(* input record whose verdict is viral, carrying that record's id, views   *)
(* and rounded score; non-viral records are dropped and nothing is         *)
(* deduplicated.                                                           *)
C6_FilterKeepsViralInOrder ==
    Returned("filter_viral_videos")
    => LET subs == call.subscribers
           IsViral(video_data) ==
               /\ subs > 0
               /\ video_data.views * RatioDen >= SelectedRatio(subs) * subs
           expected == SelectSeq(call.videos, IsViral)
       IN  /\ ret.kind = "return"
           /\ Len(ret.value) = Len(expected)
           /\ \A k \in 1 .. Len(expected) :
                /\ ret.value[k].id = expected[k].id
                /\ ret.value[k].views = expected[k].views
                /\ IsRounded(ret.value[k].virality_score, expected[k].views, subs)

(* the same id twice in the input, both viral, both returned; and a list   *)
(* from which a non-viral record was dropped ahead of a viral one          *)
C6_Witness ==
    /\ Returned("filter_viral_videos") /\ ret.kind = "return"
    /\ Len(call.videos) = 2 /\ Len(ret.value) = 2
    /\ ret.value[1].id = ret.value[2].id
    /\ ret.value[1].views # ret.value[2].views

----------------------------------------------------------------------------
(* Properties of the fact verifier, stated over the claim, the answers of  *)
(* the endpoints, the result and the calls made.                           *)

Route ==
    IF call.claim.category \in {"tvl", "price", "percentage"}
    THEN call.claim.category ELSE "generic"

(* what the adapter of the route yields for an entity *)
AdapterData(entity) ==
    CASE Route = "tvl" -> get_protocol_tvl(world, entity).data
      [] Route = "price" -> get_token_price(world, entity).data
      [] Route = "percentage" -> get_yields(world, entity).data
      [] OTHER -> IF defillama_query(world, entity).data # None
                  THEN defillama_query(world, entity).data
                  ELSE coingecko_query(world, entity).data

(* the adapter calls that querying one entity takes on the route *)
AdapterCalls(entity) ==
    CASE Route = "tvl" -> get_protocol_tvl(world, entity).calls
      [] Route = "price" -> get_token_price(world, entity).calls
      [] Route = "percentage" -> get_yields(world, entity).calls
      [] OTHER -> IF defillama_query(world, entity).data # None
                  THEN defillama_query(world, entity).calls
                  ELSE defillama_query(world, entity).calls
                         \o coingecko_query(world, entity).calls

YieldsData(entity) ==
    IF Route = "percentage" THEN AdapterData(entity) # <<>>
    ELSE AdapterData(entity) # None

(* the position of the first entity that yields data, 0 when none does *)
FirstYielding ==
    LET entities == call.claim.entities
        yielding == {i \in 1 .. Len(entities) : YieldsData(entities[i])}
    IN  IF yielding = {} THEN 0 ELSE Min(yielding)

Observed == AdapterData(call.claim.entities[FirstYielding])

(* the data of the first yielding entity holds numbers only *)
ObservedIsNumeric ==
    IF Route = "percentage"
    THEN \A i \in 1 .. Len(Take(Observed, 10)) :
            IsNumber(Get(Observed[i].apy, Num(0, 0)))
    ELSE IsNumber(Observed.value)

(* the number the route reads from the claim text *)
ClaimedNumber ==
    IF Route = "percentage" THEN _extract_percentage(call.claim.claim)
    ELSE _extract_number(call.claim.claim)

(* low/10 <= actual / claimed <= high/10 *)
RatioWithin(actual, claimed, low, high) ==
    LeqTimes(claimed, low, actual, 10) /\ LeqTimes(actual, 10, claimed, high)

(* C7: when an adapter yields an observed value for an entity and the      *)
(* claim text yields a nonzero number, the status is verified exactly when *)
(* observed / claimed lies in the closed band of the category (tvl 0.8 to  *)
(* 1.2, price 0.9 to 1.1, percentage 0.7 to 1.3 for the selected pool, a   *)
(* pool among the entity's first 10) and outdated otherwise.               *)
C7_StatusFollowsBand ==
    (/\ Returned("verify_single_claim")
     /\ Route \in {"tvl", "price", "percentage"}
     /\ FirstYielding > 0
     /\ ObservedIsNumeric
     /\ Truthy(ClaimedNumber))
    => /\ ret.kind = "return"
       /\ ret.value.status \in {VERIFIED, OUTDATED}
       /\ Route = "tvl" =>
            (ret.value.status = VERIFIED
               <=> RatioWithin(Observed.value, ClaimedNumber, 8, 12))
       /\ Route = "price" =>
            (ret.value.status = VERIFIED
               <=> RatioWithin(Observed.value, ClaimedNumber, 9, 11))
       /\ Route = "percentage" =>
            /\ ret.value.status = VERIFIED
                 <=> \E i \in 1 .. Len(Take(Observed, 10)) :
                        /\ Truthy(Get(Observed[i].apy, Num(0, 0)))
                        /\ RatioWithin(Get(Observed[i].apy, Num(0, 0)),
                                       ClaimedNumber, 7, 13)
            /\ ret.value.status = VERIFIED
                 => RatioWithin(ret.value.verified_value.value,
                                ClaimedNumber, 7, 13)

(* claimed TVL 10 billion, observed 11 billion: verified *)
C7_Witness ==
    /\ Returned("verify_single_claim") /\ ret.kind = "return"
    /\ Route = "tvl" /\ FirstYielding > 0
    /\ ret.value.status = VERIFIED
    /\ Truthy(ClaimedNumber)
    /\ NumEq(ClaimedNumber, Num(10, 9))
    /\ NumEq(Observed.value, Num(11, 9))

(* C8 as stated: on every route, if the claim text has no extractable      *)
(* number and the adapter of the route returns data for one of the claim's *)
(* entities, the status is verified.                                       *)
C8_ExistenceIsVerified ==
    (/\ Returned("verify_single_claim")
     /\ _extract_number(call.claim.claim) = None
     /\ _extract_percentage(call.claim.claim) = None
     /\ FirstYielding > 0
     /\ ObservedIsNumeric)
    => /\ ret.kind = "return"
       /\ ret.value.status = VERIFIED

(* the adapter a call belongs to *)
AdapterOf(called) ==
    IF called.fn \in {"get_token_price", "_search_token"}
    THEN CoinGeckoName ELSE DefiLlamaName

(* C9: if no entity of the claim yields adapter data (an empty entity list *)
(* included) the result is unverified with source and verified_value null; *)
(* every verified or outdated result has a non-null source that names the  *)
(* adapter which supplied the data.                                        *)
C9_UnverifiedIffNoData ==
    Returned("verify_single_claim")
    => /\ FirstYielding = 0
            => /\ ret.kind = "return"
               /\ ret.value.status = UNVERIFIED
               /\ ret.value.source = None
               /\ ret.value.verified_value = None
       /\ (ret.kind = "return" /\ ret.value.status \in {VERIFIED, OUTDATED})
            => /\ ret.value.source # None
               /\ log # <<>>
               /\ ret.value.source.value = AdapterOf(log[Len(log)])
               /\ FirstYielding > 0

(* a generic claim that the price adapter confirms after the TVL adapter   *)
(* had nothing for two lookups                                             *)
C9_Witness ==
    /\ Returned("verify_single_claim") /\ ret.kind = "return"
    /\ Route = "generic"
    /\ ret.value.status = VERIFIED
    /\ ret.value.source.value = CoinGeckoName
    /\ Len(log) >= 3

RECURSIVE CallsUpTo(_)
CallsUpTo(n) ==
    IF n = 0 THEN <<>>
    ELSE CallsUpTo(n - 1) \o AdapterCalls(call.claim.entities[n])

(* C10 as stated: on every route the entities are queried in their listed  *)
(* order, and as soon as one entity produces data the status is decided    *)
(* from that entity and no later entity is queried.                        *)
C10_FirstDataDecides ==
    Returned("verify_single_claim")
    => /\ FirstYielding = 0 => log = CallsUpTo(Len(call.claim.entities))
       /\ FirstYielding > 0 =>
            /\ log = CallsUpTo(FirstYielding)
            /\ ret.kind = "return" => ret.value.status \in {VERIFIED, OUTDATED}

(* the same statement off the case of C8 (a percentage claim whose text    *)
(* holds no percentage)                                                    *)
C10_Elsewhere ==
    (Route = "percentage" => Truthy(ClaimedNumber)) => C10_FirstDataDecides

----------------------------------------------------------------------------
(* Properties of verify_claims *)

Statuses == {VERIFIED, OUTDATED, UNVERIFIED}

Passes == DOMAIN passes.pc

Done(p) == passes.pc[p] = "done"

(* the claims the extractor hands to pass p *)
Extracted(p) ==
    extract_claims(call.runs[p].transcript_text, call.runs[p].reply,
                   DefaultMaxClaims).out.value

(* C11: no fact produced by verify_claims has status false: the status of  *)
(* every result of verify_single_claim, and of every fact of a returned    *)
(* list, is one of verified, outdated, unverified.                         *)
C11_StatusNeverFalse ==
    /\ (Returned("verify_single_claim") /\ ret.kind = "return")
       => ret.value.status \in Statuses
    /\ \A p \in Passes :
          (Done(p) /\ passes.out[p].kind = "return")
          => \A i \in 1 .. Len(passes.out[p].value) :
                passes.out[p].value[i].status \in Statuses

(* a pass that returned an outdated fact: the price differs from the claim *)
C11_Witness ==
    \E p \in Passes :
       /\ Done(p) /\ passes.out[p].kind = "return"
       /\ \E i \in 1 .. Len(passes.out[p].value) :
             /\ passes.out[p].value[i].status = OUTDATED
             /\ passes.out[p].value[i].source = Str("name", CoinGeckoName)

(* C12 as stated: verify_claims returns without raising one VerifiedFact   *)
(* per extracted claim, in extractor order, each with the given video_id,  *)
(* whatever the entities of the claims and the outcomes of the adapters.   *)
C12_OneFactPerClaim ==
    \A p \in Passes :
       Done(p)
       => /\ passes.out[p].kind = "return"
          /\ Len(passes.out[p].value) = Len(Extracted(p))
          /\ \A i \in 1 .. Len(Extracted(p)) :
                /\ passes.out[p].value[i].video_id = call.runs[p].video_id
                /\ passes.out[p].value[i].claim = Extracted(p)[i].claim

C14_InterleavedAsAlone ==
    \A p \in Passes :
       (/\ call.runs[1].video_id # call.runs[2].video_id
        /\ Done(p))
       => passes.out[p] = verify_claims(world, call.runs[p].reply,
                                        call.runs[p].transcript_text,
                                        call.runs[p].video_id).out

(* a request of the second pass went out between two requests of the       *)
(* first, and both passes returned facts                                   *)
C14_Witness ==
    /\ call.op = "verify_claims"
    /\ call.runs[1].video_id # call.runs[2].video_id
    /\ Done(1) /\ Done(2)
    /\ passes.out[1].kind = "return" /\ passes.out[1].value # <<>>
    /\ passes.out[2].kind = "return" /\ passes.out[2].value # <<>>
    /\ \E i, j, k \in 1 .. Len(log) :
          /\ i < j /\ j < k
          /\ log[i].pass = 1 /\ log[i].request.fn # "create"
          /\ log[j].pass = 2 /\ log[j].request.fn # "create"
          /\ log[k].pass = 1

----------------------------------------------------------------------------
(* Properties of the claim extractor *)

Long(text) == text.len >= MinTextLength

(* the claim the loop builds from an item that passes the filter *)
ClaimOf(item) ==
    [claim |-> ItemGet(item, "claim", <<>>),
     category |-> ItemGet(item, "category", "other"),
     entities |-> ItemGet(item, "entities", JsonList(<<>>)),
     original_text |-> <<>>,
     confidence |-> FloatOf(ItemGet(item, "confidence", MinConfidence))]

(* the post-filter on one item of the parsed array *)
Survives(item) ==
    /\ item.kind = "object"
    /\ ItemGet(item, "claim", <<>>) # <<>>
    /\ FloatOf(ItemGet(item, "confidence", MinConfidence)).kind = "float"
    /\ LeqTimes(MinConfidence, 1,
                FloatOf(ItemGet(item, "confidence", MinConfidence)), 1)

(* an item whose handling ends the whole loop in the code *)
Fatal(item) ==
    \/ item.kind # "object"
    \/ FloatOf(ItemGet(item, "confidence", MinConfidence)).kind = "TypeError"

Filtered(items) ==
    LET kept == SelectSeq(items, Survives)
    IN  [i \in 1 .. Len(kept) |-> ClaimOf(kept[i])]

(* C15: extract_claims on an empty transcript or one shorter than 50       *)
(* characters returns the empty list and makes no call to the              *)
(* collaborator, whatever the collaborator would have answered.            *)
C15_ShortTranscriptNoCall ==
    (Returned("extract_claims") /\ ~Long(call.text))
    => (ret = Return(<<>>) /\ log = <<>>)

(* a transcript of 49 characters and a reply that yields a claim for a     *)
(* transcript of 50                                                        *)
C15_Witness ==
    /\ Returned("extract_claims")
    /\ call.text.len = MinTextLength - 1
    /\ call.reply # Failure
    /\ extract_claims([len |-> MinTextLength], Reply(call.reply),
                      call.max_claims).out.value # <<>>
    /\ ret = Return(<<>>) /\ log = <<>>

Tolerated(reply) ==
    /\ reply.holds # None
    /\ \/ reply.fenced
       \/ ~reply.loose /\ ~reply.brackets

C17_ItemsFilteredAlone ==
    (/\ Returned("extract_claims") /\ Long(call.text)
     /\ call.reply # Failure
     /\ call.max_claims = DefaultMaxClaims)
    => ret = Return(Filtered(_parse_json_response(call.reply.text)))

(* C18 as stated: the returned list is the first max_claims of the items   *)
(* that pass the post-filter, in the collaborator's order.                 *)
C18_TruncatedAfterFiltering ==
    (/\ Returned("extract_claims") /\ Long(call.text)
     /\ call.reply # Failure
     /\ \A i \in 1 .. Len(_parse_json_response(call.reply.text)) :
           ~Fatal(_parse_json_response(call.reply.text)[i]))
    => ret = Return(Take(Filtered(_parse_json_response(call.reply.text)),
                         call.max_claims))

Categories == {"price", "tvl", "percentage", "date", "protocol_info", "other"}

(* C19 as stated: every returned ExtractedClaim has a category of the data *)
(* model and a confidence in [0.5, 1].                                     *)
C19_ClaimsSatisfyDataModel ==
    Returned("extract_claims")
    => \A i \in 1 .. Len(ret.value) :
          /\ ret.value[i].category \in Categories
          /\ LeqTimes(MinConfidence, 1, ret.value[i].confidence, 1)
          /\ LeqTimes(ret.value[i].confidence, 1, Num(1, 0), 1)

----------------------------------------------------------------------------
(* Properties of magnitude extraction *)

(* the multiplier, as a power of ten, that the word after a number calls   *)
(* for: a unit word or the bare suffix m or k, nothing for any other word  *)
UnitExponent(word) ==
    IF word \in BillionWords THEN 9
    ELSE IF word \in MillionWords THEN 6
    ELSE IF word \in ThousandWords THEN 3
    ELSE 0

Scaled(mention) ==
    LET number == Float(Remove(mention.number, ","))
    IN  Num(number.m, number.e + UnitExponent(mention.word))

(* the mention the patterns select when tried in order: the first with a   *)
(* billion word, else the first with a million word, else the first with   *)
(* a thousand word, else the first number                                  *)
Selected(mentions) ==
    LET With(e) == {i \in 1 .. Len(mentions) :
                       UnitExponent(mentions[i].word) = e}
    IN  IF With(9) # {} THEN Min(With(9))
        ELSE IF With(6) # {} THEN Min(With(6))
        ELSE IF With(3) # {} THEN Min(With(3))
        ELSE 1

(* C20 as stated: the billion, million, thousand and bare patterns are     *)
(* tried in that order; the multiplier goes only to a number directly      *)
(* followed by its unit word, a number followed by an ordinary word        *)
(* beginning with m or k gets none; no number gives the absence marker.    *)
C20_MultiplierNeedsUnitWord ==
    Returned("_extract_number")
    => /\ ret.kind = "return"
       /\ (\A i \in 1 .. Len(call.mentions) :
              ~ValidNumber(call.mentions[i].number))
          => ret.value = None
       /\ (\A i \in 1 .. Len(call.mentions) :
              ValidNumber(call.mentions[i].number)) /\ call.mentions # <<>>
          => ret.value = Scaled(call.mentions[Selected(call.mentions)])

(* C20 with the words beginning with m or k left out *)
C20_Elsewhere ==
    (/\ Returned("_extract_number")
     /\ \A i \in 1 .. Len(call.mentions) :
           call.mentions[i].word \in OrdinaryWords
           => call.mentions[i].word \in {<<>>, <<"u", "s", "e", "r", "s">>})
    => C20_MultiplierNeedsUnitWord

----------------------------------------------------------------------------
(* Properties of the source adapters *)

IsLookup == call.op \in {"get_protocol_tvl", "get_chain_tvl", "get_token_price"}

(* the response of the endpoint the lookup asks first *)
LookupResponse ==
    IF call.op = "get_protocol_tvl" THEN world.protocol[LowerName(call.query)]
    ELSE IF call.op = "get_chain_tvl" THEN world.chains
    ELSE world.price[LowerName(call.query)]

(* the value field the lookup reads is absent from a successful response *)
FieldMissing ==
    LET body == LookupResponse.body
    IN  IF call.op = "get_protocol_tvl"
        THEN \/ body.tvl = Missing
             \/ /\ body.tvl # None
                /\ body.tvl.kind = "list"
                /\ body.tvl.items # <<>>
                /\ body.tvl.items[Len(body.tvl.items)].totalLiquidityUSD = Missing
        ELSE IF call.op = "get_chain_tvl"
        THEN \E i \in 1 .. Len(body) :
                /\ LowerName(body[i].name) = LowerName(call.query)
                /\ \A j \in 1 .. i - 1 :
                      LowerName(body[j].name) # LowerName(call.query)
                /\ body[i].tvl = Missing
        ELSE body # Missing /\ body.usd = Missing

LookupFails ==
    \/ LookupResponse.raised
    \/ ~LookupResponse.raised /\ LookupResponse.status # 200
    \/ ~LookupResponse.raised /\ LookupResponse.status = 200 /\ FieldMissing

(* C21: a lookup whose request fails in transport, whose response status   *)
(* is not success, or whose response lacks the value field returns none.   *)
C21_FailureGivesNone ==
    (IsLookup /\ ret.kind # "none" /\ LookupFails) => ret = Return(None)

(* C22: a token price lookup sends at most three requests: the price       *)
(* request, one search, and one retried price request; a retried           *)
(* identifier that is absent again ends the lookup with none.              *)
C22_OneSearchOneRetry ==
    Returned("get_token_price") =>
        /\ Len(log) <= 3
        /\ (/\ Len(log) = 3
            /\ ~world.price[LowerName(log[3].arg)].raised
            /\ world.price[LowerName(log[3].arg)].status = 200
            /\ world.price[LowerName(log[3].arg)].body = Missing)
           => ret = Return(None)

----------------------------------------------------------------------------
(* Properties of the routes *)

(* x.m * 10^x.e in units of 10^e *)
Units(x, e) == x.m * Pow10(x.e - e)

(* |a - c| <= |b - c| *)
NoFarther(a, b, c) ==
    LET e == Min({a.e, b.e, c.e})
    IN  Abs(Units(a, e) - Units(c, e)) <= Abs(Units(b, e) - Units(c, e))

(* C23: the pool reported for a verified percentage claim is the pool      *)
(* among the entity's first 10 whose APY is closest to the claimed one.    *)
C23_ClosestPoolReported ==
    (/\ Returned("verify_single_claim")
     /\ Route = "percentage"
     /\ ret.kind = "return"
     /\ ret.value.status = VERIFIED)
    => LET pools == Take(get_yields(world, log[Len(log)].arg).data, MatchedPools)
           reported == ret.value.notes.value
       IN  \A i \in 1 .. Len(pools) :
              LET pool_apy == Get(pools[i].apy, Num(0, 0))
              IN  IsNumber(pool_apy)
                  => NoFarther(reported.apy, pool_apy, ClaimedNumber)

(* what C24 says of a finished run of the generic fallback *)
GenericAsClaimed ==
    LET entities == call.claim.entities
        first == FirstYielding
    IN  /\ log = CallsUpTo(IF first = 0 THEN Len(entities) ELSE first)
        /\ first # 0
           => /\ ret.kind = "return"
              /\ ret.value.status = VERIFIED
              /\ ret.value.source =
                    Str("name",
                        IF defillama_query(world, entities[first]).data # None
                        THEN DefiLlamaName ELSE CoinGeckoName)
        /\ ret.kind = "return" => ret.value.status # OUTDATED

(* C24: on the generic fallback each entity is asked of the TVL adapter    *)
(* first and of the price adapter only when the TVL adapter returned       *)
(* nothing; the first adapter that returns data makes the claim verified   *)
(* with that adapter as source, and the status is never outdated.          *)
C24_FirstAdapterVerifies ==
    (Returned("verify_single_claim") /\ Route = "generic") => GenericAsClaimed

(* C24 holds wherever the data of the first yielding entity is a number *)
C24_Elsewhere ==
    (/\ Returned("verify_single_claim")
     /\ Route = "generic"
     /\ FirstYielding # 0 => ObservedIsNumeric)
    => GenericAsClaimed

(* C25: the transcript text sent to the generative-text collaborator is    *)
(* never longer than the maximum length, and is the transcript itself      *)
(* when the transcript is within the limit.                                *)
C25_PromptTextWithinLimit ==
    (Returned("extract_claims") /\ log # <<>>)
    => /\ log[1].arg.len <= MaxTextLength
       /\ call.text.len <= MaxTextLength => log[1].arg = call.text

(* C26: on the tvl route an entity that is no protocol but is a chain with  *)
(* data yields data, so the claim is not left unverified.                  *)
C26_ChainFallbackOnTvlRoute ==
    (/\ Returned("verify_single_claim")
     /\ Route = "tvl"
     /\ ret.kind = "return"
     /\ \E i \in 1 .. Len(call.claim.entities) :
           defillama_query(world, call.claim.entities[i]).data # None)
    => ret.value.status # UNVERIFIED

(* C30: on the tvl and price routes a verified result without              *)
(* original_value is produced only when the claim text yields no number;   *)
(* when it yields one, 0 included, original_value is set.                  *)
C30_ExistenceOnlyWithoutNumber ==
    (/\ Returned("verify_single_claim")
     /\ Route \in {"tvl", "price"}
     /\ ret.kind = "return"
     /\ FirstYielding # 0)
    => /\ (ret.value.status = VERIFIED /\ ret.value.original_value = None)
          => ClaimedNumber = None
       /\ ClaimedNumber # None => ret.value.original_value # None

----------------------------------------------------------------------------
(* Properties of the monitoring cycle and the database *)

(* C27: no step changes a fact row that is stored, and every insert_fact   *)
(* of a cycle adds a row.                                                  *)
C27_StoredFactsNeverChange ==
    [][/\ \A i \in 1 .. Len(db.facts) :
            /\ i <= Len(db'.facts)
            /\ db'.facts[i] = db.facts[i]
       /\ cycles' # cycles
          => Len(db'.facts) = Len(db.facts) + cycles'[Len(cycles')].inserted
       /\ cycles' = cycles => Len(db'.facts) = Len(db.facts)]_vars

(* two cycles have each stored facts, the second for a claim the first     *)
(* stored a fact for, and a script has been approved or rejected           *)
C27_Witness ==
    /\ Len(cycles) = 2
    /\ cycles[1].inserted > 0
    /\ cycles[2].inserted > 0
    /\ \E i, j \in 1 .. Len(db.facts) :
          /\ i <= cycles[1].inserted
          /\ j > cycles[1].inserted
          /\ db.facts[i].claim = db.facts[j].claim
    /\ \E i \in 1 .. Len(db.scripts) : db.scripts[i].status # "draft"

InSeq(x, seq) == \E i \in 1 .. Len(seq) : seq[i] = x

(* C28: in every cycle each newly found viral video is passed to           *)
(* processing unless it has a script already.                              *)
C28_BatchCompletes ==
    \A k \in 1 .. Len(cycles) :
       \A i \in 1 .. Len(cycles[k].found) :
          \/ InSeq(cycles[k].found[i], cycles[k].processed)
          \/ InSeq(cycles[k].found[i], cycles[k].skipped)

(* C29: a video that was processed without a script in one cycle is        *)
(* processed again in a later cycle whose listing still has it as viral.   *)
C29_LaterCycleRetries ==
    \A j, k \in 1 .. Len(cycles) :
       \A i \in 1 .. Len(cycles[k].viral) :
          (/\ j < k
           /\ InSeq(cycles[k].viral[i], cycles[j].processed)
           /\ ~InSeq(cycles[k].viral[i], cycles[j].scripted))
          => InSeq(cycles[k].viral[i], cycles[k].processed)

====
